---- MODULE Spec2Model ----
(***************************************************************************)
(* Claim - dispatch - reconcile engine of the notification server.         *)
(*                                                                         *)
(* The store is the notification_queue table with the SQL functions that   *)
(* are its only access path, the user_fcm_tokens table, and any number of  *)
(* NotificationWorker processes (here: the set Workers) polling it.        *)
(*                                                                         *)
(* Time.  The code compares timestamps only with NOW() minus a threshold,  *)
(* so a timestamp column holds NULL or the time elapsed since it was set,  *)
(* counted in clock ticks and saturating one tick past the threshold it is *)
(* compared with.  The timestamp of a processed row's claim is never       *)
(* compared again: it is kept as NULL or SET.  created_at is kept as the   *)
(* rank of the inserting transaction (rows of one transaction share it).   *)
(***************************************************************************)
EXTENDS Integers, FiniteSets, Sequences, TLC

\* ------------------------------------------------------------------ bounds
NumIntents   == 3      \* ids of notification_queue rows
MaxEnqueue   == 1      \* rows the producers insert in one behaviour
BatchSize    == 2      \* config.worker.batchSize, scaled (BATCH_SIZE env, default 50)
ClaimTimeout == 1      \* resetStuckNotifications(30): ticks a claim may stay unprocessed
Retention    == 1      \* cleanupOldNotifications(7): ticks a processed row is kept
MaxLog       == 2      \* recorded results of mark_notification_processed per row
MaxAttempts  == 2      \* recorded send calls per row and token
MaxStat      == 2      \* value at which a counter of stats stops counting
NumTokenRows == 2      \* ids of user_fcm_tokens rows in the calls taken on their own
TokenHorizon == 1      \* INTERVAL '60 days': ticks a registration stays fresh
MaxFails     == 3      \* recorded failed poll cycles in a row
MaxLoops     == 3      \* processLoop() calls of one instance that are followed
MaxStarts    == 2      \* start() calls of one instance that await the sweep

Workers == {"w1", "w2"}
Intents == 1..NumIntents
Users   == {"u1", "u2"}
Tokens  == {"t1", "t2"}

NULL     == -1         \* SQL NULL of a timestamp column
SET      == -2         \* a claim timestamp that is no longer compared

\* user_fcm_tokens.user_id: both registrations belong to u1, u2 has no device
Owner(t) == "u1"

VARIABLES
    queue,        \* notification_queue: row of every intent id
    nextId,       \* next id a producer inserts (ids are never reused)
    lastCreated,  \* created_at of the newest row
    selected,     \* rows each in-flight claim statement has selected and locked
    tokens,       \* user_fcm_tokens.is_active per token
    pc,           \* position of each worker's process / poll loop
    isRunning,    \* NotificationWorker.isRunning
    timer,        \* maintenanceInterval armed
    batch,        \* rows returned by the worker's latest claim call
    item,         \* processNotification task per claimed row of the batch
    overlap,      \* history: callers whose claim call overlapped the worker's latest
    pending0,     \* history: number of Pending rows when the latest claim began
    sent,         \* history: workers that dispatched the row to the transport
    skipped,      \* history: a token lookup for the row returned no token
    markLog,      \* history: results of mark_notification_processed on the row
    attempts,     \* history: transport send calls made for the row, per token
    stats,        \* NotificationWorker.stats
    fcm,          \* one sendToMultipleTokens call, token by token
    counting,     \* whether stats and attempts are counted (they are write-only)
    ret,              \* what the latest store call made on its own returned
    user_fcm_tokens,  \* the table user_fcm_tokens, row by id, for those calls
    boot,             \* process.env and the position of the start of the process
    retry,            \* history: the waits of processLoop after failed cycles
    driver,           \* start() and stop() called on one instance: its loops
    marker            \* history: the worker whose mark of the row returned TRUE

vars == <<queue, nextId, lastCreated, selected, tokens, pc, isRunning, timer,
          batch, item, overlap, pending0, sent,
          skipped, markLog, attempts, stats, fcm, counting, ret,
          user_fcm_tokens, boot, retry, driver, marker>>

\* The variables of the calls taken on their own and of the start of the
\* process: the engine leaves them alone.
callVars == <<ret, user_fcm_tokens, boot, driver, marker>>

\* seq tells one call from the next: it alternates with every call.
NoCall == [seq |-> 0, op |-> "none", arg |-> 0, user |-> "none", token |-> "none",
           ids |-> {}, ok |-> TRUE, value |-> 0, rows |-> {}]

\* ------------------------------------------------------------------ config
\* A variable of process.env: not set, set to a text that begins with no
\* digit ("abc", ""), or set to the decimal text of an integer.
EnvUnset == [kind |-> "unset", n |-> 0]
EnvText == [kind |-> "text", n |-> 0]
EnvNum(n) == [kind |-> "num", n |-> n]

\* A JavaScript number: NaN or an integer.
NaN == [nan |-> TRUE, n |-> 0]
Number(n) == [nan |-> FALSE, n |-> n]

\* parseInt of the variable: NaN for undefined and for a text without digits.
parseInt(v) == IF v.kind = "num" THEN Number(v.n) ELSE NaN

\* x || d: the default replaces every falsy x, that is NaN and 0.
OrDefault(x, d) == IF x.nan \/ x.n = 0 THEN Number(d) ELSE x

DefaultBatchSize == 50
DefaultPollIntervalMs == 5000
MaxBatchSize == 1000
MinPollIntervalMs == 1000

\* config.worker as config.js computes it when the module is loaded.
workerConfig(env) ==
    [batchSize |-> OrDefault(parseInt(env.BATCH_SIZE), DefaultBatchSize),
     pollIntervalMs |-> OrDefault(parseInt(env.POLL_INTERVAL_MS), DefaultPollIntervalMs)]

\* The connection credentials as a whole: all five set and well formed, one
\* of them not set, or all set and one without the text validateConfig looks
\* for ('supabase.co', '@', 'BEGIN PRIVATE KEY').
Credentials == {"good", "absent", "malformed"}

\* validateConfig returns (TRUE) or calls process.exit(1) (FALSE).
validateConfig(env) ==
    LET c == workerConfig(env) IN
    /\ env.cred = "good"
    /\ ~(c.batchSize.nan \/ c.batchSize.n < 1 \/ c.batchSize.n > MaxBatchSize)
    /\ ~(c.pollIntervalMs.nan \/ c.pollIntervalMs.n < MinPollIntervalMs)

\* No start of a process is modelled: the environment is the documented one.
NoBoot == [phase |-> "none", cred |-> "good", BATCH_SIZE |-> EnvUnset,
           POLL_INTERVAL_MS |-> EnvUnset]

\* The waits are recorded where the start of the process is modelled.
Timed == boot.phase # "none"

\* One instance under calls of start() and stop(): the calls of start()
\* that await the sweep, and where each processLoop() call is.
LoopIds == 1..MaxLoops
NoDriver == [starting |-> 0, loops |-> [l \in LoopIds |-> "none"]]

\* fails: failed cycles in a row; wait: the sleep of the latest of them;
\* prev: the sleep of the one before it.
NoRetry == [fails |-> 0, wait |-> 0, prev |-> 0]

\* ------------------------------------------------------------------- store
NoRow == [exists |-> FALSE, user_id |-> "u1", created_at |-> 0, processed |-> FALSE,
          processing_started_at |-> NULL, processed_at |-> NULL]

NewRow(u, c) == [exists |-> TRUE, user_id |-> u, created_at |-> c, processed |-> FALSE,
                 processing_started_at |-> NULL, processed_at |-> NULL]

IsPending(r)   == r.exists /\ ~r.processed /\ r.processing_started_at = NULL
IsClaimed(r)   == r.exists /\ ~r.processed /\ r.processing_started_at # NULL
IsProcessed(r) == r.exists /\ r.processed

PendingIds(q)   == {i \in Intents : IsPending(q[i])}
ClaimedIds(q)   == {i \in Intents : IsClaimed(q[i])}
ProcessedIds(q) == {i \in Intents : IsProcessed(q[i])}

Min(a, b) == IF a <= b THEN a ELSE b

\* (mutation: ORDER BY created_at DESC)
RECURSIVE OrderByCreatedDescLimit(_, _, _)
OrderByCreatedDescLimit(q, avail, n) ==
    IF n = 0 \/ avail = {} THEN {{}}
    ELSE LET first == {i \in avail : \A j \in avail : q[i].created_at >= q[j].created_at}
         IN  UNION {{{i} \cup S : S \in OrderByCreatedDescLimit(q, avail \ {i}, n - 1)} : i \in first}

\* ORDER BY created_at ASC LIMIT n over the rows of `avail`: every set the
\* statement may pick (rows of equal created_at come in any order).
RECURSIVE OrderByCreatedLimit(_, _, _)
OrderByCreatedLimit(q, avail, n) ==
    IF n = 0 \/ avail = {} THEN {{}}
    ELSE LET first == {i \in avail : \A j \in avail : q[i].created_at <= q[j].created_at}
         IN  UNION {{{i} \cup S : S \in OrderByCreatedLimit(q, avail \ {i}, n - 1)} : i \in first}

\* (mutation: the sub-select without SKIP LOCKED)
ClaimSubselectNoSkip(q, locked, limit) ==
    OrderByCreatedLimit(q, PendingIds(q), limit)

\* (mutation: the sub-select without its LIMIT)
ClaimSubselectNoLimit(q, locked, limit) ==
    OrderByCreatedLimit(q, PendingIds(q) \ locked, NumIntents)

\* The sub-select of claim_unprocessed_notifications: unprocessed rows with no
\* claim timestamp, oldest first, FOR UPDATE SKIP LOCKED.
ClaimSubselect(q, locked, limit) ==
    OrderByCreatedLimit(q, PendingIds(q) \ locked, limit)

\* UPDATE ... SET processing_started_at = NOW() on the selected rows.
ClaimUpdateRows(q, S) ==
    [i \in Intents |-> IF i \in S THEN [q[i] EXCEPT !.processing_started_at = 0] ELSE q[i]]

\* (mutation: the UPDATE without AND processed = FALSE)
MarkMatchesAnyRow(q, i) == q[i].exists

\* mark_notification_processed: UPDATE ... WHERE id = notification_id AND processed = FALSE
MarkMatches(q, i) == q[i].exists /\ q[i].processed = FALSE

\* (mutation: the UPDATE sets processed_at and forgets processed = TRUE)
MarkRowNoFlag(r) == [r EXCEPT !.processed_at = 0]

MarkRow(r) ==
    [r EXCEPT !.processed = TRUE, !.processed_at = 0,
              !.processing_started_at = IF @ = NULL THEN NULL ELSE SET]

mark_notification_processed(q, i) ==
    IF MarkMatches(q, i) THEN [q EXCEPT ![i] = MarkRow(q[i])] ELSE q

\* (mutation: the age comparison of the reset turned around, .gt for .lt)
ResetMatchesYounger(r, timeout) ==
    r.exists /\ r.processed = FALSE /\ r.processing_started_at # NULL
             /\ r.processing_started_at <= timeout

\* resetStuckNotifications: rows with processed = false, processing_started_at
\* not null and older than the timeout get processing_started_at = null.
ResetMatches(r, timeout) ==
    r.exists /\ r.processed = FALSE /\ r.processing_started_at # NULL
             /\ r.processing_started_at > timeout

\* (mutation: the reset does not look at the age of the claim)
resetClaimedNotifications(q, timeout) ==
    [i \in Intents |-> IF IsClaimed(q[i])
                       THEN [q[i] EXCEPT !.processing_started_at = NULL] ELSE q[i]]

resetStuckNotifications(q, timeout) ==
    [i \in Intents |-> IF ResetMatches(q[i], timeout)
                       THEN [q[i] EXCEPT !.processing_started_at = NULL] ELSE q[i]]

\* cleanup_old_notifications: DELETE ... WHERE processed = TRUE AND processed_at < NOW() - days
CleanupMatches(r, days) == r.exists /\ r.processed = TRUE /\ r.processed_at > days

\* (mutation: the DELETE without processed = TRUE)
cleanup_old_rows(q, days) ==
    [i \in Intents |-> IF q[i].exists /\ (q[i].processed_at > days
                                           \/ q[i].processing_started_at > days)
                       THEN NoRow ELSE q[i]]

cleanup_old_notifications(q, days) ==
    [i \in Intents |-> IF CleanupMatches(q[i], days) THEN NoRow ELSE q[i]]

\* (mutation: the lookup returns one registration of the user only)
get_user_first_fcm_token(tk, u) ==
    LET act == {t \in Tokens : Owner(t) = u /\ tk[t]}
    IN  IF act = {} THEN {} ELSE {CHOOSE t \in act : TRUE}

\* get_user_active_fcm_tokens: the user's rows with is_active = TRUE (the
\* registrations of the engine are all younger than the 60 days of the SELECT;
\* SelectActiveTokens below has the filter on updated_at)
get_user_active_fcm_tokens(tk, u) == {t \in Tokens : Owner(t) = u /\ tk[t]}

\* (mutation: every registration of the users concerned is switched off)
deactivate_user_fcm_tokens(tk, ids) ==
    [t \in Tokens |-> IF \E s \in ids : Owner(s) = Owner(t) THEN FALSE ELSE tk[t]]

\* deactivate_fcm_tokens: is_active = FALSE on the given ids
deactivate_fcm_tokens(tk, ids) == [t \in Tokens |-> IF t \in ids THEN FALSE ELSE tk[t]]

\* ------------------------------------------------- user_fcm_tokens, row by row
\* The table as a whole: id, user_id, fcm_token, is_active, updated_at and
\* last_used_at (both as the time elapsed, saturating at the horizon).
TokenIds == 1..NumTokenRows
TokenStrings == {"s1", "s2"}

NoTokenRow == [exists |-> FALSE, user_id |-> "u1", fcm_token |-> "s1", is_active |-> FALSE,
               updated_at |-> 0, last_used_at |-> 0]

NoTokens == [id \in TokenIds |-> NoTokenRow]

\* The row UNIQUE(user_id, fcm_token) makes an upsert collide with.
Conflict(tab, u, s) ==
    {id \in TokenIds : tab[id].exists /\ tab[id].user_id = u /\ tab[id].fcm_token = s}

Registered(u, s) == [exists |-> TRUE, user_id |-> u, fcm_token |-> s, is_active |-> TRUE,
                     updated_at |-> 0, last_used_at |-> 0]

\* (mutation: a plain INSERT into a table without the UNIQUE constraint)
InsertToken(tab, u, s, id) == [tab EXCEPT ![id] = Registered(u, s)]

\* upsert(..., onConflict: 'user_id,fcm_token'): the row of the pair is
\* updated, or a row is inserted under the fresh id.
UpsertToken(tab, u, s, id) ==
    IF Conflict(tab, u, s) # {}
    THEN [x \in TokenIds |-> IF x \in Conflict(tab, u, s)
                             THEN [tab[x] EXCEPT !.is_active = TRUE, !.updated_at = 0,
                                                 !.last_used_at = 0]
                             ELSE tab[x]]
    ELSE [tab EXCEPT ![id] = Registered(u, s)]

\* (mutation: deactivation by DELETE)
DeleteTokens(tab, ids) ==
    [id \in TokenIds |-> IF id \in ids /\ tab[id].exists /\ tab[id].is_active
                         THEN NoTokenRow ELSE tab[id]]

\* deactivate_fcm_tokens: is_active = FALSE, updated_at = NOW()
\* WHERE id = ANY(token_ids) AND is_active = TRUE
DeactivateTokens(tab, ids) ==
    [id \in TokenIds |-> IF id \in ids /\ tab[id].exists /\ tab[id].is_active
                         THEN [tab[id] EXCEPT !.is_active = FALSE, !.updated_at = 0]
                         ELSE tab[id]]

\* get_user_active_fcm_tokens, the UPDATE: last_used_at = NOW() on the user's
\* active rows.
TouchTokens(tab, u) ==
    [id \in TokenIds |-> IF tab[id].exists /\ tab[id].user_id = u /\ tab[id].is_active
                         THEN [tab[id] EXCEPT !.last_used_at = 0] ELSE tab[id]]

\* (mutation: the SELECT without its two filters on is_active and updated_at)
SelectUserTokens(tab, u) ==
    {id \in TokenIds : tab[id].exists /\ tab[id].user_id = u}

\* get_user_active_fcm_tokens, the SELECT: the user's rows with is_active = TRUE
\* and updated_at > NOW() - INTERVAL '60 days'.
SelectActiveTokens(tab, u) ==
    {id \in TokenIds : /\ tab[id].exists /\ tab[id].user_id = u
                       /\ tab[id].is_active
                       /\ tab[id].updated_at < TokenHorizon}

\* The clock advances one tick: every set timestamp is one tick older.
Older(a, cap) == IF a = NULL \/ a = SET THEN a ELSE Min(a + 1, cap)

TickRow(r) ==
    IF ~r.exists THEN r
    ELSE [r EXCEPT !.processing_started_at = Older(@, ClaimTimeout + 1),
                   !.processed_at = Older(@, Retention + 1)]


\* --------------------------------------------------------------- transport
\* What firebase messaging.send does with one message: it resolves, or rejects
\* with an error carrying one of these codes ("none": an error without a code,
\* such as a network failure).
Outcomes == {"ok", "messaging/invalid-registration-token",
             "messaging/registration-token-not-registered",
             "messaging/invalid-argument", "messaging/server-unavailable", "none"}

\* (mutation: every failed send is taken for an invalid token)
IsFailure(code) == code # "ok"

\* The codes the catch block of a send treats as a permanently invalid token.
IsPermanentlyInvalid(code) ==
    code \in {"messaging/invalid-registration-token",
              "messaging/registration-token-not-registered"}

InvalidTokenIds(toks, out) == {t \in toks : IsPermanentlyInvalid(out[t])}

\* notification.payload: no object at all, or an object with its entries in key
\* order, every key one character long; a value is null, undefined, or
\* something whose String() has a length.
Keys == {"k1", "k2"}
MaxValueLength == 2    \* slice(0, 4000), scaled
MaxTotalSize == MaxValueLength
Values == {[kind |-> k, len |-> 0] : k \in {"null", "undefined"}}
              \cup {[kind |-> "text", len |-> n] : n \in 0..MaxValueLength + 1}
NoPayload == [object |-> FALSE, entries |-> <<>>]

Entries(n) == {e \in [1..n -> [key : Keys, val : Values]] :
                  \A a, b \in 1..n : a # b => e[a].key # e[b].key}

Payloads == {NoPayload} \cup {[object |-> TRUE, entries |-> es] :
                                  es \in Entries(0) \cup Entries(1) \cup Entries(2)}

RECURSIVE SanitizeEntries(_)
SanitizeEntries(es) ==
    IF es = <<>> THEN <<>>
    ELSE LET e == es[1]
             rest == SanitizeEntries(Tail(es))
         IN  IF e.val.kind \in {"null", "undefined"} THEN rest
             ELSE <<[key |-> e.key, len |-> Min(e.val.len, MaxValueLength)]>> \o rest

\* sanitizeDataPayload: String(value).slice(0, 4000) of every value that is
\* neither null nor undefined.
sanitizeDataPayload(payload) ==
    IF ~payload.object THEN <<>> ELSE SanitizeEntries(payload.entries)

RECURSIVE TotalSize(_)
TotalSize(data) ==
    IF data = <<>> THEN 0 ELSE 1 + data[1].len + TotalSize(Tail(data))

FcmIdle == [pc |-> "idle", tokens |-> {}, out |-> [t \in Tokens |-> "ok"],
            payload |-> NoPayload, todo |-> {},
            calls |-> [t \in Tokens |-> 0], data |-> [t \in Tokens |-> <<>>],
            successCount |-> 0, failureCount |-> 0, invalidTokenIds |-> <<>>]

\* ----------------------------------------------------------------- workers
\* Rows locked by the claim statements of the other workers.
LockedRows(w) == UNION {selected[v] : v \in Workers \ {w}}

NoItem == [pc |-> "none", toks |-> {}, inv |-> {}, marks |-> 0]

Settled(w) == \A i \in batch[w] : item[w][i].pc \in {"fulfilled", "rejected"}

Append1(log, r) == IF Len(log) < MaxLog THEN Append(log, r) ELSE log

ZeroStats == [processed |-> 0, failed |-> 0, tokensDeactivated |-> 0]

\* processLoop, the catch: sleep(config.worker.pollIntervalMs * 2).
AfterFailure(r) ==
    IF Timed THEN [fails |-> Min(r.fails + 1, MaxFails),
                   wait |-> workerConfig(boot).pollIntervalMs.n * 2,
                   prev |-> r.wait]
    ELSE r

\* processBatch has returned: the row of failed cycles is over.
AfterSuccess(r) == IF Timed THEN NoRetry ELSE r

\* The call of worker w on row i has returned r.
Marked(m, w, i, r) == IF r THEN [m EXCEPT ![i] = w] ELSE m

\* counter += n, as far as the model counts.
Plus(counter, n) == IF counting THEN Min(counter + n, MaxStat) ELSE counter

\* The transport has been called once more for each of the tokens.
CountAttempts(a, toks) ==
    [t \in Tokens |-> IF counting /\ t \in toks THEN Min(a[t] + 1, MaxAttempts) ELSE a[t]]

\* ------------------------------------------------------------- environment
\* A producer (trigger or application code) inserts one row.
queue_notification(u, c) ==
    /\ nextId <= NumIntents
    /\ c \in {lastCreated, lastCreated + 1} /\ c >= 1
    /\ queue' = [queue EXCEPT ![nextId] = NewRow(u, c)]
    /\ nextId' = nextId + 1
    /\ lastCreated' = c
    /\ UNCHANGED <<callVars, counting, retry,
                   selected, tokens, pc, isRunning, timer, batch, item,
                   overlap, pending0, sent, skipped, markLog,
                   attempts, stats, fcm>>

Tick ==
    /\ queue' = [i \in Intents |-> TickRow(queue[i])]
    /\ queue' # queue
    /\ UNCHANGED <<callVars, counting, retry,
                   nextId, lastCreated, selected, tokens, pc, isRunning, timer, batch,
                   item, overlap, pending0, sent, skipped,
                   markLog,
                   attempts, stats, fcm>>

\* ------------------------------------------------------- process lifecycle
\* (mutation: start() does not await the sweep and goes on to processLoop)
StartWithoutSweep(w) ==
    /\ pc[w] = "down"
    /\ pc' = [pc EXCEPT ![w] = "poll"]
    /\ isRunning' = [isRunning EXCEPT ![w] = TRUE]
    /\ stats' = [stats EXCEPT ![w] = ZeroStats]
    /\ UNCHANGED <<callVars, counting, retry,
                   queue, nextId, lastCreated, selected, tokens, timer, batch, item,
                   overlap, pending0, sent, skipped, markLog,
                   attempts, fcm>>

\* main(): new NotificationWorker(), start() up to its first await.
Start(w) ==
    /\ pc[w] = "down"
    /\ pc' = [pc EXCEPT ![w] = "recover"]
    /\ isRunning' = [isRunning EXCEPT ![w] = TRUE]
    /\ stats' = [stats EXCEPT ![w] = ZeroStats]
    /\ UNCHANGED <<callVars, counting, retry,
                   queue, nextId, lastCreated, selected, tokens, timer, batch, item,
                   overlap, pending0, sent, skipped, markLog,
                   attempts, fcm>>

\* recoverStuckNotifications(), then processLoop() up to the claim call it
\* issues, then startMaintenanceTasks().
recoverStuckNotifications(w, ok) ==
    /\ pc[w] = "recover"
    /\ queue' = IF ok THEN resetStuckNotifications(queue, ClaimTimeout) ELSE queue
    /\ pc' = [pc EXCEPT ![w] = IF isRunning[w] THEN "poll" ELSE "loopdone"]
    /\ timer' = [timer EXCEPT ![w] = TRUE]
    /\ UNCHANGED <<callVars, counting, retry,
                   nextId, lastCreated, selected, tokens, isRunning, batch, item,
                   overlap, pending0, sent, skipped, markLog,
                   attempts, stats, fcm>>

\* The process ends (kill -9, power loss, process.exit): an in-flight claim
\* statement aborts.
Crash(w) ==
    /\ pc[w] # "down"
    /\ pc' = [pc EXCEPT ![w] = "down"]
    /\ isRunning' = [isRunning EXCEPT ![w] = FALSE]
    /\ timer' = [timer EXCEPT ![w] = FALSE]
    /\ item' = [item EXCEPT ![w] = [i \in Intents |-> NoItem]]
    /\ batch' = [batch EXCEPT ![w] = {}]
    /\ selected' = [selected EXCEPT ![w] = {}]
    /\ UNCHANGED <<callVars, counting, retry,
                   queue, nextId, lastCreated, tokens, overlap, pending0,
                   sent, skipped, markLog,
                   attempts, stats, fcm>>

\* A shutdown signal: gracefulShutdown calls stop(), which clears isRunning and
\* the maintenance timer; the process goes on until its exit (Crash).
Stop(w) ==
    /\ pc[w] # "down"
    /\ isRunning[w]
    /\ isRunning' = [isRunning EXCEPT ![w] = FALSE]
    /\ timer' = [timer EXCEPT ![w] = FALSE]
    /\ UNCHANGED <<callVars, counting, retry,
                   queue, nextId, lastCreated, selected, tokens, pc, batch, item,
                   overlap, pending0, sent, skipped, markLog,
                   attempts, stats, fcm>>

\* gracefulShutdown after stop(): the sleep of 5000 ms is over and
\* process.exit(0) ends the process, wherever the loop and the tasks of the
\* batch are; a claim statement in flight aborts.
ProcessExit(w) ==
    /\ pc[w] \notin {"down", "exited"}
    /\ ~isRunning[w]
    /\ pc' = [pc EXCEPT ![w] = "exited"]
    /\ item' = [item EXCEPT ![w] = [i \in Intents |-> NoItem]]
    /\ batch' = [batch EXCEPT ![w] = {}]
    /\ selected' = [selected EXCEPT ![w] = {}]
    /\ UNCHANGED <<callVars, counting, retry,
                   queue, nextId, lastCreated, tokens, isRunning, timer,
                   overlap, pending0, sent, skipped, markLog,
                   attempts, stats, fcm>>

\* ---------------------------------------------------------------- poll loop
\* claim_unprocessed_notifications, the sub-select: lock the rows to claim.
ClaimSelect(w) ==
    /\ pc[w] = "poll"
    /\ \E S \in ClaimSubselect(queue, LockedRows(w), BatchSize) :
          selected' = [selected EXCEPT ![w] = S]
    /\ pc' = [pc EXCEPT ![w] = "claiming"]
    /\ batch' = [batch EXCEPT ![w] = {}]
    /\ UNCHANGED <<callVars, counting, retry,
                   queue, nextId, lastCreated, tokens, isRunning, timer, item,
                   sent, skipped, markLog,
                   attempts, stats, fcm>>

\* claim_unprocessed_notifications, the UPDATE ... RETURNING and the commit;
\* processBatch then fans the rows out, or returns on an empty result.
ClaimUpdate(w) ==
    /\ pc[w] = "claiming"
    /\ LET S == selected[w] IN
         /\ queue' = ClaimUpdateRows(queue, S)
         /\ batch' = [batch EXCEPT ![w] = S]
         /\ item' = [item EXCEPT ![w] =
                       [i \in Intents |-> IF i \in S THEN [NoItem EXCEPT !.pc = "lookup"]
                                          ELSE NoItem]]
         /\ pc' = [pc EXCEPT ![w] = IF S = {} THEN "sleep" ELSE "batch"]
    /\ selected' = [selected EXCEPT ![w] = {}]
    /\ retry' = [retry EXCEPT ![w] = AfterSuccess(@)]
    /\ UNCHANGED <<callVars, counting,
                   nextId, lastCreated, tokens, isRunning, timer,
                   overlap, pending0, sent, skipped, markLog,
                   attempts, stats, fcm>>

\* (mutation: the error of the claim call is not caught and ends the loop)
ClaimFailFatal(w) ==
    /\ pc[w] = "poll"
    /\ pc' = [pc EXCEPT ![w] = "loopdone"]
    /\ stats' = [stats EXCEPT ![w].failed = Plus(@, 1)]
    /\ UNCHANGED <<callVars, counting, retry,
                   queue, nextId, lastCreated, selected, tokens, isRunning, timer,
                   batch, item, overlap, pending0, sent, skipped,
                   markLog, attempts, fcm>>

\* The claim call fails (store error): processLoop catches it and backs off.
ClaimFail(w) ==
    /\ pc[w] = "poll"
    /\ pc' = [pc EXCEPT ![w] = "backoff"]
    /\ stats' = [stats EXCEPT ![w].failed = Plus(@, 1)]
    /\ retry' = [retry EXCEPT ![w] = AfterFailure(@)]
    /\ UNCHANGED <<callVars, counting,
                   queue, nextId, lastCreated, selected, tokens, isRunning, timer,
                   batch, item, overlap, pending0, sent, skipped,
                   markLog, attempts, fcm>>

\* (mutation: Promise.race for Promise.allSettled: the loop goes on as soon
\* as one item has settled, the others stay in flight)
BatchDoneFirst(w) ==
    /\ pc[w] = "batch"
    /\ \E i \in batch[w] : item[w][i].pc \in {"fulfilled", "rejected"}
    /\ pc' = [pc EXCEPT ![w] = "sleep"]
    /\ item' = [item EXCEPT ![w] =
                  [i \in Intents |-> IF item[w][i].pc \in {"fulfilled", "rejected"}
                                     THEN NoItem ELSE item[w][i]]]
    /\ batch' = [batch EXCEPT ![w] = {}]
    /\ stats' = [stats EXCEPT
                   ![w].processed = Plus(@, Cardinality({i \in batch[w] : item[w][i].pc = "fulfilled"})),
                   ![w].failed = Plus(@, Cardinality({i \in batch[w] : item[w][i].pc = "rejected"}))]
    /\ UNCHANGED <<callVars, counting, retry,
                   queue, nextId, lastCreated, selected, tokens, isRunning, timer,
                   overlap, pending0, sent, skipped,
                   markLog, attempts, fcm>>

\* Promise.allSettled resolves: the batch is over, the loop sleeps.
BatchDone(w) ==
    /\ pc[w] = "batch"
    /\ Settled(w)
    /\ pc' = [pc EXCEPT ![w] = "sleep"]
    /\ item' = [item EXCEPT ![w] = [i \in Intents |-> NoItem]]
    /\ batch' = [batch EXCEPT ![w] = {}]
    /\ stats' = [stats EXCEPT
                   ![w].processed = Plus(@, Cardinality({i \in batch[w] : item[w][i].pc = "fulfilled"})),
                   ![w].failed = Plus(@, Cardinality({i \in batch[w] : item[w][i].pc = "rejected"}))]
    /\ UNCHANGED <<callVars, counting, retry,
                   queue, nextId, lastCreated, selected, tokens, isRunning, timer,
                   overlap, pending0, sent, skipped,
                   markLog, attempts, fcm>>

\* (mutation: the loop does not test isRunning)
WakeForever(w) ==
    /\ pc[w] \in {"sleep", "backoff"}
    /\ pc' = [pc EXCEPT ![w] = "poll"]
    /\ UNCHANGED <<callVars, counting, retry,
                   queue, nextId, lastCreated, selected, tokens, isRunning, timer,
                   batch, item, overlap, pending0, sent,
                   skipped, markLog,
                   attempts, stats, fcm>>

\* The sleep ends; while (this.isRunning) issues the next claim call.
Wake(w) ==
    /\ pc[w] \in {"sleep", "backoff"}
    /\ pc' = [pc EXCEPT ![w] = IF isRunning[w] THEN "poll" ELSE "loopdone"]
    /\ UNCHANGED <<callVars, counting, retry,
                   queue, nextId, lastCreated, selected, tokens, isRunning, timer,
                   batch, item, overlap, pending0, sent,
                   skipped, markLog,
                   attempts, stats, fcm>>


\* ------------------------------------------------------ processNotification
\* (mutation: the lookup result is not tested for emptiness)
LookupTokensUnguarded(w, i) ==
    /\ item[w][i].pc = "lookup"
    /\ LET toks == get_user_active_fcm_tokens(tokens, queue[i].user_id) IN
         /\ item' = [item EXCEPT ![w][i] = [@ EXCEPT !.pc = "send", !.toks = toks]]
         /\ skipped' = [skipped EXCEPT ![i] = @ \/ toks = {}]
    /\ UNCHANGED <<callVars, counting, retry,
                   queue, nextId, lastCreated, selected, tokens, pc, isRunning, timer,
                   batch, overlap, pending0, sent, markLog,
                   attempts, stats, fcm>>

\* getUserActiveFcmTokens: the lookup; no token means mark and return.
LookupTokens(w, i) ==
    /\ item[w][i].pc = "lookup"
    /\ LET toks == get_user_active_fcm_tokens(tokens, queue[i].user_id) IN
         /\ item' = [item EXCEPT ![w][i] =
                       IF toks = {} THEN [@ EXCEPT !.pc = "markEmpty"]
                                    ELSE [@ EXCEPT !.pc = "send", !.toks = toks]]
         /\ skipped' = [skipped EXCEPT ![i] = @ \/ toks = {}]
    /\ UNCHANGED <<callVars, counting, retry,
                   queue, nextId, lastCreated, selected, tokens, pc, isRunning, timer,
                   batch, overlap, pending0, sent, markLog,
                   attempts, stats, fcm>>

\* getUserActiveFcmTokens throws: control passes to the catch block.
LookupFail(w, i) ==
    /\ item[w][i].pc = "lookup"
    /\ item' = [item EXCEPT ![w][i].pc = "catch"]
    /\ UNCHANGED <<callVars, counting, retry,
                   queue, nextId, lastCreated, selected, tokens, pc, isRunning, timer,
                   batch, overlap, pending0, sent, skipped, markLog,
                   attempts, stats, fcm>>

\* fcm.sendToMultipleTokens: one send per token; inv are the tokens the provider
\* reports invalid or unregistered (any other outcome leaves no trace here).
sendToMultipleTokens(w, i, inv) ==
    /\ item[w][i].pc = "send"
    /\ \E out \in [item[w][i].toks -> Outcomes] : inv = InvalidTokenIds(item[w][i].toks, out)
    /\ item' = [item EXCEPT ![w][i] =
                  [@ EXCEPT !.pc = IF inv = {} THEN "mark" ELSE "deactivate",
                            !.toks = {}, !.inv = inv]]
    /\ sent' = [sent EXCEPT ![i] = @ \cup {w}]
    /\ attempts' = [attempts EXCEPT ![i] = CountAttempts(@, item[w][i].toks)]
    /\ UNCHANGED <<callVars, counting, retry,
                   queue, nextId, lastCreated, selected, tokens, pc, isRunning, timer,
                   batch, overlap, pending0, skipped, markLog, stats, fcm>>

\* (mutation: the counter grows by the length of the list, not by the count
\* the store returns)
deactivateInvalidTokensByLength(w, i, ok) ==
    /\ item[w][i].pc = "deactivate"
    /\ tokens' = IF ok THEN deactivate_fcm_tokens(tokens, item[w][i].inv) ELSE tokens
    /\ item' = [item EXCEPT ![w][i] = [@ EXCEPT !.pc = "mark", !.inv = {}]]
    /\ stats' = [stats EXCEPT ![w].tokensDeactivated =
                   Plus(@, Cardinality(item[w][i].inv))]
    /\ UNCHANGED <<callVars, counting, retry,
                   queue, nextId, lastCreated, selected, pc, isRunning, timer, batch,
                   overlap, pending0, sent, skipped, markLog, attempts, fcm>>

\* deactivateInvalidTokens: a store error is caught inside and yields 0.
deactivateInvalidTokens(w, i, ok) ==
    /\ item[w][i].pc = "deactivate"
    /\ tokens' = IF ok THEN deactivate_fcm_tokens(tokens, item[w][i].inv) ELSE tokens
    /\ item' = [item EXCEPT ![w][i] = [@ EXCEPT !.pc = "mark", !.inv = {}]]
    /\ stats' = [stats EXCEPT ![w].tokensDeactivated =
                   Plus(@, IF ok THEN Cardinality({t \in item[w][i].inv : tokens[t]}) ELSE 0)]
    /\ UNCHANGED <<callVars, counting, retry,
                   queue, nextId, lastCreated, selected, pc, isRunning, timer, batch,
                   overlap, pending0, sent, skipped, markLog, attempts, fcm>>

\* markNotificationProcessed on the normal paths (no token, or after the send).
\* The UPDATE waits for a row lock held by a claim statement.
markNotificationProcessed(w, i) ==
    /\ item[w][i].pc \in {"markEmpty", "mark"}
    /\ i \notin LockedRows(w)
    /\ queue' = mark_notification_processed(queue, i)
    /\ markLog' = [markLog EXCEPT ![i] = Append1(@, MarkMatches(queue, i))]
    /\ item' = [item EXCEPT ![w][i] = [@ EXCEPT !.pc = "fulfilled", !.marks = 1]]
    /\ marker' = Marked(marker, w, i, MarkMatches(queue, i))
    /\ UNCHANGED <<ret, user_fcm_tokens, boot, driver, counting, retry,
                   nextId, lastCreated, selected, tokens, pc, isRunning, timer, batch,
                   overlap, pending0, sent, skipped,
                   attempts, stats, fcm>>

\* markNotificationProcessed throws on the normal paths: on to the catch block.
MarkFail(w, i) ==
    /\ item[w][i].pc \in {"markEmpty", "mark"}
    /\ item' = [item EXCEPT ![w][i] = [@ EXCEPT !.pc = "catch", !.marks = 1]]
    /\ UNCHANGED <<callVars, counting, retry,
                   queue, nextId, lastCreated, selected, tokens, pc, isRunning, timer,
                   batch, overlap, pending0, sent, skipped, markLog,
                   attempts, stats, fcm>>

\* (mutation: the catch block rethrows without marking the row)
CatchRethrowOnly(w, i, ok) ==
    /\ item[w][i].pc = "catch"
    /\ item' = [item EXCEPT ![w][i] = [@ EXCEPT !.pc = "rejected"]]
    /\ UNCHANGED <<callVars, counting, retry,
                   queue, nextId, lastCreated, selected, tokens, pc, isRunning, timer,
                   batch, overlap, pending0, sent, skipped, markLog,
                   attempts, stats, fcm>>

\* The catch block: mark the row anyway (a second failure is swallowed), rethrow.
CatchMark(w, i, ok) ==
    /\ item[w][i].pc = "catch"
    /\ IF ok THEN /\ i \notin LockedRows(w)
                  /\ queue' = mark_notification_processed(queue, i)
                  /\ markLog' = [markLog EXCEPT ![i] = Append1(@, MarkMatches(queue, i))]
             ELSE /\ queue' = queue /\ markLog' = markLog
    /\ item' = [item EXCEPT ![w][i] = [@ EXCEPT !.pc = "rejected", !.marks = @ + 1]]
    /\ marker' = Marked(marker, w, i, ok /\ MarkMatches(queue, i))
    /\ UNCHANGED <<ret, user_fcm_tokens, boot, driver, counting, retry,
                   nextId, lastCreated, selected, tokens, pc, isRunning, timer, batch,
                   overlap, pending0, sent, skipped,
                   attempts, stats, fcm>>

\* -------------------------------------------------------------- maintenance
\* (mutation: the hourly callback purges but does not reclaim)
MaintenanceCleanupOnly(w, okCleanup, okReset) ==
    /\ timer[w] /\ isRunning[w]
    /\ queue' = IF okCleanup THEN cleanup_old_notifications(queue, Retention) ELSE queue
    /\ UNCHANGED <<callVars, counting, retry,
                   nextId, lastCreated, selected, tokens, pc, isRunning, timer,
                   batch, item, overlap, pending0, sent, skipped, markLog,
                   attempts, stats, fcm>>

\* The hourly setInterval callback: cleanupOldNotifications(7), then
\* resetStuckNotifications(30); either call swallows its store error and yields 0.
Maintenance(w, okCleanup, okReset) ==
    /\ timer[w] /\ isRunning[w]
    /\ LET q1 == IF okCleanup THEN cleanup_old_notifications(queue, Retention) ELSE queue
       IN  queue' = IF okReset THEN resetStuckNotifications(q1, ClaimTimeout) ELSE q1
    /\ UNCHANGED <<callVars, counting, retry,
                   nextId, lastCreated, selected, tokens, pc, isRunning, timer, batch, item,
                   overlap, pending0, sent, skipped, markLog,
                   attempts, stats, fcm>>

\* ------------------------------------------------------------ specification
TypeOK ==
    /\ nextId \in 1..NumIntents + 1
    /\ \A w \in Workers : selected[w] \subseteq Intents
    /\ \A w \in Workers : batch[w] \subseteq Intents

Init ==
    /\ queue = [i \in Intents |-> NoRow]
    /\ nextId = 1
    /\ lastCreated = 0
    /\ selected = [w \in Workers |-> {}]
    /\ tokens = [t \in Tokens |-> TRUE]
    /\ pc = [w \in Workers |-> "down"]
    /\ isRunning = [w \in Workers |-> FALSE]
    /\ timer = [w \in Workers |-> FALSE]
    /\ batch = [w \in Workers |-> {}]
    /\ item = [w \in Workers |-> [i \in Intents |-> NoItem]]
    /\ overlap = [w \in Workers |-> {}]
    /\ pending0 = [w \in Workers |-> 0]
    /\ sent = [i \in Intents |-> {}]
    /\ skipped = [i \in Intents |-> FALSE]
    /\ markLog = [i \in Intents |-> <<>>]
    /\ attempts = [i \in Intents |-> [t \in Tokens |-> 0]]
    /\ stats = [w \in Workers |-> ZeroStats]
    /\ fcm = FcmIdle
    /\ counting = FALSE
    /\ ret = NoCall
    /\ user_fcm_tokens = NoTokens
    /\ boot = NoBoot
    /\ retry = [w \in Workers |-> NoRetry]
    /\ driver = NoDriver
    /\ marker = [i \in Intents |-> "none"]

Next ==
    \/ \E u \in Users : nextId <= MaxEnqueue /\ queue_notification(u, lastCreated + 1)
    \/ Tick
    \/ \E w \in Workers : Start(w)
    \/ \E w \in Workers, ok \in BOOLEAN : recoverStuckNotifications(w, ok)
    \/ \E w \in Workers : Crash(w)
    \/ \E w \in Workers : Stop(w)
    \/ \E w \in Workers : ClaimSelect(w) /\ UNCHANGED <<overlap, pending0>>
    \/ \E w \in Workers : ClaimUpdate(w)
    \/ \E w \in Workers : ClaimFail(w)
    \/ \E w \in Workers : BatchDone(w)
    \/ \E w \in Workers : Wake(w)
    \/ \E w \in Workers, i \in Intents : LookupTokens(w, i)
    \/ \E w \in Workers, i \in Intents : LookupFail(w, i)
    \/ \E w \in Workers, i \in Intents, inv \in SUBSET Tokens : sendToMultipleTokens(w, i, inv)
    \/ \E w \in Workers, i \in Intents, ok \in BOOLEAN : deactivateInvalidTokens(w, i, ok)
    \/ \E w \in Workers, i \in Intents : markNotificationProcessed(w, i)
    \/ \E w \in Workers, i \in Intents : MarkFail(w, i)
    \/ \E w \in Workers, i \in Intents, ok \in BOOLEAN : CatchMark(w, i, ok)
    \/ \E w \in Workers, okCleanup \in BOOLEAN, okReset \in BOOLEAN :
          Maintenance(w, okCleanup, okReset)

Spec == Init /\ [][Next]_vars


\* ----------------------------------------------------------------- liveness
\* One instance (Survivor) keeps running; the other is up from the start and
\* may die at any point, for good (no shutdown signal is sent to either).
\* The clock runs, the Survivor's loop and
\* timer keep being scheduled, the store finishes a claim statement it has
\* begun, every call of the Survivor returns or throws, and a store call that
\* is attempted again and again does not throw every time.
Survivor == "w1"

LiveInit ==
    /\ queue = [i \in Intents |-> NoRow]
    /\ nextId = 1
    /\ lastCreated = 0
    /\ selected = [w \in Workers |-> {}]
    /\ tokens = [t \in Tokens |-> TRUE]
    /\ pc = [w \in Workers |-> IF w = Survivor THEN "down" ELSE "recover"]
    /\ isRunning = [w \in Workers |-> w # Survivor]
    /\ timer = [w \in Workers |-> FALSE]
    /\ batch = [w \in Workers |-> {}]
    /\ item = [w \in Workers |-> [i \in Intents |-> NoItem]]
    /\ overlap = [w \in Workers |-> {}]
    /\ pending0 = [w \in Workers |-> 0]
    /\ sent = [i \in Intents |-> {}]
    /\ skipped = [i \in Intents |-> FALSE]
    /\ markLog = [i \in Intents |-> <<>>]
    /\ attempts = [i \in Intents |-> [t \in Tokens |-> 0]]
    /\ stats = [w \in Workers |-> ZeroStats]
    /\ fcm = FcmIdle
    /\ counting = FALSE
    /\ ret = NoCall
    /\ user_fcm_tokens = NoTokens
    /\ boot = NoBoot
    /\ retry = [w \in Workers |-> NoRetry]
    /\ driver = NoDriver
    /\ marker = [i \in Intents |-> "none"]

Claim(w) == ClaimSelect(w) /\ UNCHANGED <<overlap, pending0>>

LiveNext ==
    \/ \E u \in Users : nextId <= MaxEnqueue /\ queue_notification(u, lastCreated + 1)
    \/ Tick
    \/ Start(Survivor)
    \/ \E w \in Workers \ {Survivor} : Crash(w)
    \/ \E w \in Workers, ok \in BOOLEAN : recoverStuckNotifications(w, ok)
    \/ \E w \in Workers : Claim(w)
    \/ \E w \in Workers : ClaimUpdate(w)
    \/ \E w \in Workers : ClaimFail(w)
    \/ \E w \in Workers : BatchDone(w)
    \/ \E w \in Workers : Wake(w)
    \/ \E w \in Workers, i \in Intents : LookupTokens(w, i)
    \/ \E w \in Workers, i \in Intents : LookupFail(w, i)
    \/ \E w \in Workers, i \in Intents, inv \in SUBSET Tokens : sendToMultipleTokens(w, i, inv)
    \/ \E w \in Workers, i \in Intents, ok \in BOOLEAN : deactivateInvalidTokens(w, i, ok)
    \/ \E w \in Workers, i \in Intents : markNotificationProcessed(w, i)
    \/ \E w \in Workers, i \in Intents : MarkFail(w, i)
    \/ \E w \in Workers, i \in Intents, ok \in BOOLEAN : CatchMark(w, i, ok)
    \/ \E w \in Workers, okCleanup \in BOOLEAN, okReset \in BOOLEAN :
          Maintenance(w, okCleanup, okReset)

\* One attempt to mark row i, by either path of processNotification.
MarkThrows(w, i) == MarkFail(w, i) \/ CatchMark(w, i, FALSE)

MarkReturns(w, i) == markNotificationProcessed(w, i) \/ CatchMark(w, i, TRUE)

LiveFairness ==
    /\ WF_vars(Tick)
    /\ WF_vars(Start(Survivor))
    /\ WF_vars(\E ok \in BOOLEAN : recoverStuckNotifications(Survivor, ok))
    /\ SF_vars(Claim(Survivor))
    /\ \A w \in Workers : WF_vars(ClaimUpdate(w))
    /\ WF_vars(BatchDone(Survivor))
    /\ WF_vars(Wake(Survivor))
    /\ SF_vars(\E okCleanup \in BOOLEAN : Maintenance(Survivor, okCleanup, TRUE))
    /\ \A i \in 1..MaxEnqueue :
          /\ WF_vars(LookupTokens(Survivor, i) \/ LookupFail(Survivor, i))
          /\ WF_vars(\E inv \in SUBSET Tokens : sendToMultipleTokens(Survivor, i, inv))
          /\ WF_vars(\E ok \in BOOLEAN : deactivateInvalidTokens(Survivor, i, ok))
          /\ WF_vars(MarkThrows(Survivor, i) \/ MarkReturns(Survivor, i))
    /\ \A w \in Workers, i \in 1..MaxEnqueue :
          []<><<MarkThrows(w, i)>>_vars => []<><<MarkReturns(w, i)>>_vars

LiveSpec == LiveInit /\ [][LiveNext]_vars /\ LiveFairness

\* ------------------------------------------------- the claim call on its own
\* Two workers issue one claim call each against any store state; the history
\* variables record which calls overlapped and what each call saw.
TrackClaim(w) ==
    /\ pending0' = [pending0 EXCEPT ![w] = Cardinality(PendingIds(queue))]
    /\ overlap' = [v \in Workers |->
                     IF v = w THEN {x \in Workers \ {w} : pc[x] = "claiming"}
                     ELSE IF pc[v] = "claiming" THEN overlap[v] \cup {w}
                     ELSE overlap[v]]

StoreRows(c) ==
    {NoRow, NewRow("u1", c),
     [NewRow("u1", c) EXCEPT !.processing_started_at = 0],
     [NewRow("u1", c) EXCEPT !.processed = TRUE, !.processing_started_at = SET,
                             !.processed_at = 0]}

ClaimInit ==
    /\ queue \in [Intents -> UNION {StoreRows(c) : c \in 1..NumIntents}]
    /\ \A i, j \in Intents :
          (i < j /\ queue[i].exists /\ queue[j].exists)
             => queue[i].created_at <= queue[j].created_at
    /\ nextId = NumIntents + 1
    /\ lastCreated = NumIntents
    /\ selected = [w \in Workers |-> {}]
    /\ tokens = [t \in Tokens |-> TRUE]
    /\ pc = [w \in Workers |-> "poll"]
    /\ isRunning = [w \in Workers |-> TRUE]
    /\ timer = [w \in Workers |-> TRUE]
    /\ batch = [w \in Workers |-> {}]
    /\ item = [w \in Workers |-> [i \in Intents |-> NoItem]]
    /\ overlap = [w \in Workers |-> {}]
    /\ pending0 = [w \in Workers |-> 0]
    /\ sent = [i \in Intents |-> {}]
    /\ skipped = [i \in Intents |-> FALSE]
    /\ markLog = [i \in Intents |-> <<>>]
    /\ attempts = [i \in Intents |-> [t \in Tokens |-> 0]]
    /\ stats = [w \in Workers |-> ZeroStats]
    /\ fcm = FcmIdle
    /\ counting = FALSE
    /\ ret = NoCall
    /\ user_fcm_tokens = NoTokens
    /\ boot = NoBoot
    /\ retry = [w \in Workers |-> NoRetry]
    /\ driver = NoDriver
    /\ marker = [i \in Intents |-> "none"]

ClaimNext ==
    \/ \E w \in Workers : ClaimSelect(w) /\ TrackClaim(w)
    \/ \E w \in Workers : ClaimUpdate(w)

SpecClaim == ClaimInit /\ [][ClaimNext]_vars

Returned(w) == pc[w] \in {"batch", "sleep"}

\* ------------------------------------------------------ one engine instance
\* One started instance (Solo) against a backlog of Pending rows, inserted one
\* after the other, and any token directory, within one hour and one reclaim
\* timeout of its start (no sweep finds anything to reclaim or purge); stats
\* and send attempts are counted.
Solo == "w1"

WorkerInit ==
    /\ \E n \in 0..NumIntents, u \in [Intents -> Users] :
          queue = [i \in Intents |-> IF i <= n THEN NewRow(u[i], i) ELSE NoRow]
    /\ nextId = NumIntents + 1
    /\ lastCreated = NumIntents
    /\ selected = [w \in Workers |-> {}]
    /\ tokens \in [Tokens -> BOOLEAN]
    /\ pc = [w \in Workers |-> IF w = Solo THEN "recover" ELSE "down"]
    /\ isRunning = [w \in Workers |-> w = Solo]
    /\ timer = [w \in Workers |-> FALSE]
    /\ batch = [w \in Workers |-> {}]
    /\ item = [w \in Workers |-> [i \in Intents |-> NoItem]]
    /\ overlap = [w \in Workers |-> {}]
    /\ pending0 = [w \in Workers |-> 0]
    /\ sent = [i \in Intents |-> {}]
    /\ skipped = [i \in Intents |-> FALSE]
    /\ markLog = [i \in Intents |-> <<>>]
    /\ attempts = [i \in Intents |-> [t \in Tokens |-> 0]]
    /\ stats = [w \in Workers |-> ZeroStats]
    /\ fcm = FcmIdle
    /\ counting = TRUE
    /\ ret = NoCall
    /\ user_fcm_tokens = NoTokens
    /\ boot = NoBoot
    /\ retry = [w \in Workers |-> NoRetry]
    /\ driver = NoDriver
    /\ marker = [i \in Intents |-> "none"]

WorkerNext ==
    \/ Stop(Solo)
    \/ ProcessExit(Solo)
    \/ \E ok \in BOOLEAN : recoverStuckNotifications(Solo, ok)
    \/ ClaimSelect(Solo) /\ TrackClaim(Solo)
    \/ ClaimUpdate(Solo)
    \/ ClaimFail(Solo)
    \/ BatchDone(Solo)
    \/ Wake(Solo)
    \/ \E i \in Intents : LookupTokens(Solo, i)
    \/ \E i \in Intents : LookupFail(Solo, i)
    \/ \E i \in Intents, inv \in SUBSET Tokens : sendToMultipleTokens(Solo, i, inv)
    \/ \E i \in Intents, ok \in BOOLEAN : deactivateInvalidTokens(Solo, i, ok)
    \/ \E i \in Intents : markNotificationProcessed(Solo, i)
    \/ \E i \in Intents : MarkFail(Solo, i)
    \/ \E i \in Intents, ok \in BOOLEAN : CatchMark(Solo, i, ok)

SpecWorker == WorkerInit /\ [][WorkerNext]_vars

\* ------------------------------------------------ the store calls on their own
\* DatabaseService.resetStuckNotifications and cleanupOldNotifications called
\* with any threshold against any state of notification_queue; ret is what the
\* call returned (a store error is caught in the method and yields 0).
QueueRows(c) ==
    {NoRow, NewRow("u1", c)}
      \cup {[NewRow("u1", c) EXCEPT !.processing_started_at = a] : a \in 0..ClaimTimeout + 1}
      \cup {[NewRow("u1", c) EXCEPT !.processed = TRUE, !.processing_started_at = st,
                                    !.processed_at = a] :
              st \in {NULL, SET}, a \in 0..Retention + 1}

ResetCall(timeout, ok) ==
    /\ queue' = IF ok THEN resetStuckNotifications(queue, timeout) ELSE queue
    /\ ret' = [NoCall EXCEPT
                 !.seq = 1 - ret.seq, !.op = "resetStuckNotifications", !.arg = timeout, !.ok = ok,
                 !.value = IF ok THEN Cardinality({i \in Intents : queue'[i] # queue[i]})
                           ELSE 0]
    /\ UNCHANGED <<user_fcm_tokens, counting, boot, retry, driver, marker,
                   nextId, lastCreated, selected, tokens, pc, isRunning, timer,
                   batch, item, overlap, pending0, sent, skipped, markLog,
                   attempts, stats, fcm>>

CleanupCall(days, ok) ==
    /\ queue' = IF ok THEN cleanup_old_notifications(queue, days) ELSE queue
    /\ ret' = [NoCall EXCEPT
                 !.seq = 1 - ret.seq, !.op = "cleanupOldNotifications", !.arg = days, !.ok = ok,
                 !.value = IF ok THEN Cardinality({i \in Intents : queue'[i] # queue[i]})
                           ELSE 0]
    /\ UNCHANGED <<user_fcm_tokens, counting, boot, retry, driver, marker,
                   nextId, lastCreated, selected, tokens, pc, isRunning, timer,
                   batch, item, overlap, pending0, sent, skipped, markLog,
                   attempts, stats, fcm>>

StoreInit ==
    /\ queue \in [Intents -> UNION {QueueRows(c) : c \in {1}}]
    /\ nextId = NumIntents + 1
    /\ lastCreated = NumIntents
    /\ selected = [w \in Workers |-> {}]
    /\ tokens = [t \in Tokens |-> TRUE]
    /\ pc = [w \in Workers |-> "down"]
    /\ isRunning = [w \in Workers |-> FALSE]
    /\ timer = [w \in Workers |-> FALSE]
    /\ batch = [w \in Workers |-> {}]
    /\ item = [w \in Workers |-> [i \in Intents |-> NoItem]]
    /\ overlap = [w \in Workers |-> {}]
    /\ pending0 = [w \in Workers |-> 0]
    /\ sent = [i \in Intents |-> {}]
    /\ skipped = [i \in Intents |-> FALSE]
    /\ markLog = [i \in Intents |-> <<>>]
    /\ attempts = [i \in Intents |-> [t \in Tokens |-> 0]]
    /\ stats = [w \in Workers |-> ZeroStats]
    /\ fcm = FcmIdle
    /\ counting = FALSE
    /\ ret = NoCall
    /\ user_fcm_tokens = NoTokens
    /\ boot = NoBoot
    /\ retry = [w \in Workers |-> NoRetry]
    /\ driver = NoDriver
    /\ marker = [i \in Intents |-> "none"]

\* FCMTokenManager.updateToken of a client: the upsert of (user, token).
updateToken(u, s, ok) ==
    /\ \E id \in TokenIds :
          /\ \/ Conflict(user_fcm_tokens, u, s) # {}
             \/ /\ ~user_fcm_tokens[id].exists
                /\ \A x \in TokenIds : x < id => user_fcm_tokens[x].exists
          /\ user_fcm_tokens' = IF ok THEN UpsertToken(user_fcm_tokens, u, s, id)
                                 ELSE user_fcm_tokens
    /\ ret' = [NoCall EXCEPT !.seq = 1 - ret.seq, !.op = "updateToken",
                              !.user = u, !.token = s, !.ok = ok]
    /\ UNCHANGED <<queue, counting, boot, retry, driver, marker,
                   nextId, lastCreated, selected, tokens, pc, isRunning, timer,
                   batch, item, overlap, pending0, sent, skipped, markLog,
                   attempts, stats, fcm>>

\* FCMTokenManager.deactivateToken of a client (logout).
deactivateToken(u, s, ok) ==
    /\ user_fcm_tokens' =
          IF ok THEN [id \in TokenIds |->
                        IF id \in Conflict(user_fcm_tokens, u, s)
                        THEN [user_fcm_tokens[id] EXCEPT !.is_active = FALSE, !.updated_at = 0]
                        ELSE user_fcm_tokens[id]]
          ELSE user_fcm_tokens
    /\ ret' = [NoCall EXCEPT !.seq = 1 - ret.seq, !.op = "deactivateToken",
                              !.user = u, !.token = s, !.ok = ok]
    /\ UNCHANGED <<queue, counting, boot, retry, driver, marker,
                   nextId, lastCreated, selected, tokens, pc, isRunning, timer,
                   batch, item, overlap, pending0, sent, skipped, markLog,
                   attempts, stats, fcm>>

\* DatabaseService.deactivateInvalidTokens: no call for an empty list, the
\* count of deactivate_fcm_tokens otherwise, 0 on a store error.
DeactivateCall(ids, ok) ==
    /\ user_fcm_tokens' = IF ok /\ ids # {} THEN DeactivateTokens(user_fcm_tokens, ids)
                           ELSE user_fcm_tokens
    /\ ret' = [NoCall EXCEPT
                 !.seq = 1 - ret.seq, !.op = "deactivateInvalidTokens", !.ids = ids, !.ok = ok,
                 !.value = Cardinality({id \in TokenIds :
                                          user_fcm_tokens'[id] # user_fcm_tokens[id]})]
    /\ UNCHANGED <<queue, counting, boot, retry, driver, marker,
                   nextId, lastCreated, selected, tokens, pc, isRunning, timer,
                   batch, item, overlap, pending0, sent, skipped, markLog,
                   attempts, stats, fcm>>

\* DatabaseService.getUserActiveFcmTokens: the rows get_user_active_fcm_tokens
\* returns; a store error is rethrown.
LookupCall(u, ok) ==
    /\ user_fcm_tokens' = IF ok THEN TouchTokens(user_fcm_tokens, u) ELSE user_fcm_tokens
    /\ ret' = [NoCall EXCEPT
                 !.seq = 1 - ret.seq, !.op = "getUserActiveFcmTokens", !.user = u, !.ok = ok,
                 !.rows = IF ok THEN SelectActiveTokens(user_fcm_tokens', u) ELSE {}]
    /\ UNCHANGED <<queue, counting, boot, retry, driver, marker,
                   nextId, lastCreated, selected, tokens, pc, isRunning, timer,
                   batch, item, overlap, pending0, sent, skipped, markLog,
                   attempts, stats, fcm>>

\* Time passes: the age of updated_at and last_used_at of every row grows, up
\* to the horizon of get_user_active_fcm_tokens (60 days in the source).
TokenTick ==
    /\ user_fcm_tokens' =
          [id \in TokenIds |->
             IF ~user_fcm_tokens[id].exists THEN user_fcm_tokens[id]
             ELSE [user_fcm_tokens[id] EXCEPT !.updated_at = Min(@ + 1, TokenHorizon),
                                              !.last_used_at = Min(@ + 1, TokenHorizon)]]
    /\ user_fcm_tokens' # user_fcm_tokens
    /\ UNCHANGED <<queue, ret, counting, boot, retry, driver, marker,
                   nextId, lastCreated, selected, tokens, pc, isRunning, timer,
                   batch, item, overlap, pending0, sent, skipped, markLog,
                   attempts, stats, fcm>>

TokensInit ==
    /\ queue = [i \in Intents |-> NoRow]
    /\ nextId = 1
    /\ lastCreated = 0
    /\ selected = [w \in Workers |-> {}]
    /\ tokens = [t \in Tokens |-> TRUE]
    /\ pc = [w \in Workers |-> "down"]
    /\ isRunning = [w \in Workers |-> FALSE]
    /\ timer = [w \in Workers |-> FALSE]
    /\ batch = [w \in Workers |-> {}]
    /\ item = [w \in Workers |-> [i \in Intents |-> NoItem]]
    /\ overlap = [w \in Workers |-> {}]
    /\ pending0 = [w \in Workers |-> 0]
    /\ sent = [i \in Intents |-> {}]
    /\ skipped = [i \in Intents |-> FALSE]
    /\ markLog = [i \in Intents |-> <<>>]
    /\ attempts = [i \in Intents |-> [t \in Tokens |-> 0]]
    /\ stats = [w \in Workers |-> ZeroStats]
    /\ fcm = FcmIdle
    /\ counting = FALSE
    /\ ret = NoCall
    /\ user_fcm_tokens = NoTokens
    /\ boot = NoBoot
    /\ retry = [w \in Workers |-> NoRetry]
    /\ driver = NoDriver
    /\ marker = [i \in Intents |-> "none"]

TokensNext ==
    \/ \E u \in Users, s \in TokenStrings, ok \in BOOLEAN : updateToken(u, s, ok)
    \/ \E u \in Users, s \in TokenStrings, ok \in BOOLEAN : deactivateToken(u, s, ok)
    \/ \E ids \in SUBSET TokenIds, ok \in BOOLEAN : DeactivateCall(ids, ok)
    \/ \E u \in Users, ok \in BOOLEAN : LookupCall(u, ok)
    \/ TokenTick

SpecTokens == TokensInit /\ [][TokensNext]_vars

StoreNext ==
    \/ \E timeout \in 0..ClaimTimeout, ok \in BOOLEAN : ResetCall(timeout, ok)
    \/ \E days \in 0..Retention, ok \in BOOLEAN : CleanupCall(days, ok)

SpecStore == StoreInit /\ [][StoreNext]_vars

\* ------------------------------------------------------- start of a process
\* node index.js, with any environment.  BootstrapWorker is the worker of the
\* bootstrap at the end of worker.js, MainWorker the worker of main().
BootstrapWorker == "w1"
MainWorker == "w2"

EnvBatchSizes == {EnvUnset, EnvText} \cup {EnvNum(n) : n \in {-1, 0, 1, 50, 1000, 1001}}
EnvPollIntervals == {EnvUnset, EnvText} \cup {EnvNum(n) : n \in {0, 999, 1000, 5000}}

\* require('./worker') of index.js: the module runs its bootstrap, which
\* constructs a NotificationWorker; a constructor that throws (createClient,
\* credential.cert, privateKey.replace on undefined) ends in process.exit(1).
RequireWorker(ok) ==
    /\ boot.phase = "load"
    /\ boot.cred = "good" => ok
    /\ boot.cred = "absent" => ~ok
    /\ boot' = [boot EXCEPT !.phase = IF ok THEN "bootstrap" ELSE "exit"]
    /\ UNCHANGED <<queue, nextId, lastCreated, selected, tokens, pc, isRunning, timer,
                   batch, item, overlap, pending0, sent, skipped, markLog, attempts,
                   stats, fcm, counting, ret, user_fcm_tokens, retry, driver, marker>>

\* The bootstrap goes on: worker.start() up to its first await.
BootstrapStart ==
    /\ boot.phase = "bootstrap"
    /\ Start(BootstrapWorker)

\* main() of index.js up to validateConfig(), which returns or ends the
\* process.
MainValidate ==
    /\ boot.phase = "bootstrap"
    /\ pc[BootstrapWorker] = "recover"
    /\ boot' = [boot EXCEPT !.phase = IF validateConfig(boot) THEN "main" ELSE "exit"]
    /\ pc' = IF validateConfig(boot) THEN pc
             ELSE [w \in Workers |-> IF pc[w] = "down" THEN "down" ELSE "exited"]
    /\ UNCHANGED <<queue, nextId, lastCreated, selected, tokens, isRunning, timer,
                   batch, item, overlap, pending0, sent, skipped, markLog, attempts,
                   stats, fcm, counting, ret, user_fcm_tokens, retry, driver, marker>>

\* main() goes on: new NotificationWorker(), worker.start() up to its first
\* await.
MainStart ==
    /\ boot.phase = "main"
    /\ Start(MainWorker)

\* The script of index.js has run to its end: the pending awaits resume.
ScriptDone == boot.phase = "main" /\ pc[MainWorker] # "down"

BootInit ==
    /\ queue = [i \in Intents |-> NoRow]
    /\ nextId = 1
    /\ lastCreated = 0
    /\ selected = [w \in Workers |-> {}]
    /\ tokens = [t \in Tokens |-> TRUE]
    /\ pc = [w \in Workers |-> "down"]
    /\ isRunning = [w \in Workers |-> FALSE]
    /\ timer = [w \in Workers |-> FALSE]
    /\ batch = [w \in Workers |-> {}]
    /\ item = [w \in Workers |-> [i \in Intents |-> NoItem]]
    /\ overlap = [w \in Workers |-> {}]
    /\ pending0 = [w \in Workers |-> 0]
    /\ sent = [i \in Intents |-> {}]
    /\ skipped = [i \in Intents |-> FALSE]
    /\ markLog = [i \in Intents |-> <<>>]
    /\ attempts = [i \in Intents |-> [t \in Tokens |-> 0]]
    /\ stats = [w \in Workers |-> ZeroStats]
    /\ fcm = FcmIdle
    /\ counting = TRUE
    /\ ret = NoCall
    /\ user_fcm_tokens = NoTokens
    /\ boot \in [phase : {"load"}, cred : Credentials, BATCH_SIZE : EnvBatchSizes,
                 POLL_INTERVAL_MS : EnvPollIntervals]
    /\ retry = [w \in Workers |-> NoRetry]
    /\ driver = NoDriver
    /\ marker = [i \in Intents |-> "none"]

BootNext ==
    \/ \E ok \in BOOLEAN : RequireWorker(ok)
    \/ BootstrapStart
    \/ MainValidate
    \/ MainStart
    \/ \E w \in Workers, ok \in BOOLEAN : ScriptDone /\ recoverStuckNotifications(w, ok)
    \/ \E w \in Workers : ScriptDone /\ Claim(w)
    \/ \E w \in Workers : ScriptDone /\ ClaimUpdate(w)
    \/ \E w \in Workers : ScriptDone /\ ClaimFail(w)
    \/ \E w \in Workers : ScriptDone /\ Wake(w)

SpecBoot == BootInit /\ [][BootNext]_vars

\* --------------------------------------- the hourly callback, call by call
\* The rows the callback finds: absent, Pending, Claimed longer ago than the
\* claim timeout, Processed longer ago than the retention.
MaintRows ==
    {NoRow, NewRow("u1", 1),
     [NewRow("u1", 1) EXCEPT !.processing_started_at = ClaimTimeout + 1],
     [NewRow("u1", 1) EXCEPT !.processed = TRUE, !.processing_started_at = SET,
                             !.processed_at = Retention + 1]}

\* The setInterval callback of startMaintenanceTasks fires (only a running
\* worker goes on) and its cleanupOldNotifications(7) returns.
MaintCleanup(ok) ==
    /\ timer[Solo] /\ isRunning[Solo]
    /\ ret.op # "cleanupOldNotifications"
    /\ CleanupCall(Retention, ok)

\* (mutation: an error of the purge ends the callback)
MaintResetIfPurged(ok) ==
    /\ ret.op = "cleanupOldNotifications"
    /\ IF ret.ok THEN ResetCall(ClaimTimeout, ok)
       ELSE /\ ret' = [NoCall EXCEPT !.seq = 1 - ret.seq]
            /\ UNCHANGED <<queue, user_fcm_tokens, counting, boot, retry, driver, marker,
                           nextId, lastCreated, selected, tokens, pc, isRunning, timer,
                           batch, item, overlap, pending0, sent, skipped, markLog,
                           attempts, stats, fcm>>

\* The callback goes on: resetStuckNotifications(30) returns.
MaintReset(ok) ==
    /\ ret.op = "cleanupOldNotifications"
    /\ ResetCall(ClaimTimeout, ok)

MaintInit ==
    /\ queue \in [Intents -> MaintRows]
    /\ nextId = NumIntents + 1
    /\ lastCreated = 1
    /\ selected = [w \in Workers |-> {}]
    /\ tokens = [t \in Tokens |-> TRUE]
    /\ pc = [w \in Workers |-> IF w = Solo THEN "poll" ELSE "down"]
    /\ isRunning = [w \in Workers |-> w = Solo]
    /\ timer = [w \in Workers |-> w = Solo]
    /\ batch = [w \in Workers |-> {}]
    /\ item = [w \in Workers |-> [i \in Intents |-> NoItem]]
    /\ overlap = [w \in Workers |-> {}]
    /\ pending0 = [w \in Workers |-> 0]
    /\ sent = [i \in Intents |-> {}]
    /\ skipped = [i \in Intents |-> FALSE]
    /\ markLog = [i \in Intents |-> <<>>]
    /\ attempts = [i \in Intents |-> [t \in Tokens |-> 0]]
    /\ stats = [w \in Workers |-> ZeroStats]
    /\ fcm = FcmIdle
    /\ counting = FALSE
    /\ ret = NoCall
    /\ user_fcm_tokens = NoTokens
    /\ boot = NoBoot
    /\ retry = [w \in Workers |-> NoRetry]
    /\ driver = NoDriver
    /\ marker = [i \in Intents |-> "none"]

MaintNext ==
    \/ \E ok \in BOOLEAN : MaintCleanup(ok)
    \/ \E ok \in BOOLEAN : MaintReset(ok)
    \/ Claim(Solo)
    \/ ClaimUpdate(Solo)
    \/ BatchDone(Solo)
    \/ Wake(Solo)
    \/ \E i \in Intents : LookupTokens(Solo, i)
    \/ \E i \in Intents : sendToMultipleTokens(Solo, i, {})
    \/ \E i \in Intents : markNotificationProcessed(Solo, i)

SpecMaint == MaintInit /\ [][MaintNext]_vars

\* ------------------------------------- start() and stop() on one instance
\* start(): returns at once when isRunning is set; otherwise sets isRunning
\* and awaits recoverStuckNotifications().
StartCall ==
    /\ ~isRunning[Solo]
    /\ driver.starting < MaxStarts
    /\ isRunning' = [isRunning EXCEPT ![Solo] = TRUE]
    /\ driver' = [driver EXCEPT !.starting = @ + 1]
    /\ UNCHANGED <<queue, nextId, lastCreated, selected, tokens, pc, timer,
                   batch, item, overlap, pending0, sent, skipped, markLog, attempts,
                   stats, fcm, counting, ret, user_fcm_tokens, boot, retry, marker>>

\* start() goes on after the sweep: processLoop() runs up to its first await
\* (it returns at once when isRunning is clear), then startMaintenanceTasks().
StartResumes(l) ==
    /\ driver.starting > 0
    /\ driver.loops[l] = "none"
    /\ \A k \in LoopIds : k < l => driver.loops[k] # "none"
    /\ driver' = [driver EXCEPT !.starting = @ - 1,
                                !.loops[l] = IF isRunning[Solo] THEN "batch" ELSE "none"]
    /\ timer' = [timer EXCEPT ![Solo] = TRUE]
    /\ UNCHANGED <<queue, nextId, lastCreated, selected, tokens, pc, isRunning,
                   batch, item, overlap, pending0, sent, skipped, markLog, attempts,
                   stats, fcm, counting, ret, user_fcm_tokens, boot, retry, marker>>

\* stop(): clears isRunning and the maintenance interval.
StopCall ==
    /\ isRunning[Solo]
    /\ isRunning' = [isRunning EXCEPT ![Solo] = FALSE]
    /\ timer' = [timer EXCEPT ![Solo] = FALSE]
    /\ UNCHANGED <<queue, nextId, lastCreated, selected, tokens, pc,
                   batch, item, overlap, pending0, sent, skipped, markLog, attempts,
                   stats, fcm, counting, ret, user_fcm_tokens, boot, retry, driver, marker>>

\* processLoop: processBatch() has returned or thrown, the loop sleeps.
LoopSleeps(l) ==
    /\ driver.loops[l] = "batch"
    /\ driver' = [driver EXCEPT !.loops[l] = "sleep"]
    /\ UNCHANGED <<queue, nextId, lastCreated, selected, tokens, pc, isRunning, timer,
                   batch, item, overlap, pending0, sent, skipped, markLog, attempts,
                   stats, fcm, counting, ret, user_fcm_tokens, boot, retry, marker>>

\* processLoop: the sleep is over; while (this.isRunning) goes round or ends.
LoopWakes(l) ==
    /\ driver.loops[l] = "sleep"
    /\ driver' = [driver EXCEPT !.loops[l] = IF isRunning[Solo] THEN "batch" ELSE "none"]
    /\ UNCHANGED <<queue, nextId, lastCreated, selected, tokens, pc, isRunning, timer,
                   batch, item, overlap, pending0, sent, skipped, markLog, attempts,
                   stats, fcm, counting, ret, user_fcm_tokens, boot, retry, marker>>

RestartNext ==
    \/ StartCall
    \/ \E l \in LoopIds : StartResumes(l)
    \/ StopCall
    \/ \E l \in LoopIds : LoopSleeps(l)
    \/ \E l \in LoopIds : LoopWakes(l)

\* The instance has just been constructed: nothing runs, the tables are empty.
SpecRestart == TokensInit /\ [][RestartNext]_vars

\* ------------------------------------------- two instances, counters counted
\* Two running instances on one store that holds two pending rows of one user.
\* Solo runs its loop with every failure it can meet and its hourly sweep,
\* which may reclaim a row an instance still works on; the other instance
\* runs one cycle without failures.  stats and send attempts are counted.
CountInit ==
    /\ \E u \in Users : queue = [i \in Intents |-> IF i <= 2 THEN NewRow(u, i) ELSE NoRow]
    /\ nextId = NumIntents + 1
    /\ lastCreated = 2
    /\ selected = [w \in Workers |-> {}]
    /\ tokens = [t \in Tokens |-> TRUE]
    /\ pc = [w \in Workers |-> "poll"]
    /\ isRunning = [w \in Workers |-> TRUE]
    /\ timer = [w \in Workers |-> TRUE]
    /\ batch = [w \in Workers |-> {}]
    /\ item = [w \in Workers |-> [i \in Intents |-> NoItem]]
    /\ overlap = [w \in Workers |-> {}]
    /\ pending0 = [w \in Workers |-> 0]
    /\ sent = [i \in Intents |-> {}]
    /\ skipped = [i \in Intents |-> FALSE]
    /\ markLog = [i \in Intents |-> <<>>]
    /\ attempts = [i \in Intents |-> [t \in Tokens |-> 0]]
    /\ stats = [w \in Workers |-> ZeroStats]
    /\ fcm = FcmIdle
    /\ counting = TRUE
    /\ ret = NoCall
    /\ user_fcm_tokens = NoTokens
    /\ boot = NoBoot
    /\ retry = [w \in Workers |-> NoRetry]
    /\ driver = NoDriver
    /\ marker = [i \in Intents |-> "none"]

CountNext ==
    \/ Tick
    \/ Maintenance(Solo, TRUE, TRUE)
    \/ \E w \in Workers : Claim(w)
    \/ \E w \in Workers : ClaimUpdate(w)
    \/ ClaimFail(Solo)
    \/ \E w \in Workers : BatchDone(w)
    \/ Wake(Solo)
    \/ \E w \in Workers, i \in Intents : LookupTokens(w, i)
    \/ \E i \in Intents : LookupFail(Solo, i)
    \/ \E w \in Workers, i \in Intents : sendToMultipleTokens(w, i, {})
    \/ \E w \in Workers, i \in Intents : markNotificationProcessed(w, i)
    \/ \E i \in Intents : MarkFail(Solo, i)
    \/ \E i \in Intents, ok \in BOOLEAN : CatchMark(Solo, i, ok)

SpecCount == CountInit /\ [][CountNext]_vars

\* ------------------------------------------- sendToMultipleTokens, step by step
\* The send of one claimed row by Solo with the call of sendToMultipleTokens
\* taken token by token, or a call of sendToMultipleTokens on its own with any
\* token list.  fcm.out is what the provider will answer for each token.
Elements(seq) == {seq[k] : k \in 1..Len(seq)}

\* processNotification calls this.fcm.sendToMultipleTokens(tokens, notification).
CallDispatch(w, i) ==
    /\ item[w][i].pc = "send"
    /\ fcm.pc = "idle"
    /\ fcm' = [fcm EXCEPT !.pc = "called", !.tokens = item[w][i].toks,
                          !.todo = item[w][i].toks]
    /\ UNCHANGED <<callVars, counting, retry,
                   queue, nextId, lastCreated, selected, tokens, pc, isRunning,
                   timer, batch, item, overlap, pending0, sent, skipped, markLog,
                   attempts, stats>>

\* The guard on an empty token list: the zero result, at once.
DispatchEmpty ==
    /\ fcm.pc = "called"
    /\ fcm.tokens = {}
    /\ fcm' = [fcm EXCEPT !.pc = "returned", !.successCount = 0, !.failureCount = 0,
                          !.invalidTokenIds = <<>>]
    /\ UNCHANGED <<callVars, counting, retry,
                   queue, nextId, lastCreated, selected, tokens, pc, isRunning,
                   timer, batch, item, overlap, pending0, sent, skipped, markLog,
                   attempts, stats>>

\* (mutation: a rejected send is not caught and ends the whole call)
SendTokenUncaught(t) ==
    /\ fcm.pc = "called"
    /\ t \in fcm.todo
    /\ fcm' = IF fcm.out[t] = "ok"
              THEN [fcm EXCEPT !.todo = @ \ {t}, !.calls[t] = @ + 1,
                               !.data[t] = sanitizeDataPayload(fcm.payload),
                               !.successCount = @ + 1]
              ELSE [fcm EXCEPT !.todo = {}, !.calls[t] = @ + 1,
                               !.data[t] = sanitizeDataPayload(fcm.payload),
                               !.pc = "thrown"]
    /\ UNCHANGED <<callVars, counting, retry,
                   queue, nextId, lastCreated, selected, tokens, pc, isRunning,
                   timer, batch, item, overlap, pending0, sent, skipped, markLog,
                   attempts, stats>>

\* One task of the Promise.all: build the message, messaging.send, and the
\* try / catch around both.
SendToken(t) ==
    /\ fcm.pc = "called"
    /\ t \in fcm.todo
    /\ fcm' = [fcm EXCEPT
                 !.todo = @ \ {t},
                 !.calls[t] = @ + 1,
                 !.data[t] = sanitizeDataPayload(fcm.payload),
                 !.successCount = IF fcm.out[t] = "ok" THEN @ + 1 ELSE @,
                 !.failureCount = IF fcm.out[t] = "ok" THEN @ ELSE @ + 1,
                 !.invalidTokenIds = IF IsPermanentlyInvalid(fcm.out[t])
                                     THEN Append(@, t) ELSE @]
    /\ UNCHANGED <<callVars, counting, retry,
                   queue, nextId, lastCreated, selected, tokens, pc, isRunning,
                   timer, batch, item, overlap, pending0, sent, skipped, markLog,
                   attempts, stats>>

\* (mutation: the result is returned without awaiting the sends)
DispatchReturnEarly ==
    /\ fcm.pc = "called"
    /\ fcm.tokens # {}
    /\ fcm' = [fcm EXCEPT !.pc = "returned", !.todo = {}]
    /\ UNCHANGED <<callVars, counting, retry,
                   queue, nextId, lastCreated, selected, tokens, pc, isRunning,
                   timer, batch, item, overlap, pending0, sent, skipped, markLog,
                   attempts, stats>>

\* Promise.all has resolved: the result object is returned.
DispatchReturn ==
    /\ fcm.pc = "called"
    /\ fcm.tokens # {}
    /\ fcm.todo = {}
    /\ fcm' = [fcm EXCEPT !.pc = "returned"]
    /\ UNCHANGED <<callVars, counting, retry,
                   queue, nextId, lastCreated, selected, tokens, pc, isRunning,
                   timer, batch, item, overlap, pending0, sent, skipped, markLog,
                   attempts, stats>>

\* processNotification goes on with the result of its call.
ReturnDispatch(w, i) ==
    /\ fcm.pc = "returned"
    /\ fcm.tokens = item[w][i].toks
    /\ sendToMultipleTokens(w, i, Elements(fcm.invalidTokenIds))

DispatchInit ==
    /\ nextId = NumIntents + 1
    /\ lastCreated = NumIntents
    /\ selected = [w \in Workers |-> {}]
    /\ tokens \in [Tokens -> BOOLEAN]
    /\ isRunning = [w \in Workers |-> w = Solo]
    /\ timer = [w \in Workers |-> w = Solo]
    /\ overlap = [w \in Workers |-> {}]
    /\ pending0 = [w \in Workers |-> 0]
    /\ sent = [i \in Intents |-> {}]
    /\ skipped = [i \in Intents |-> FALSE]
    /\ markLog = [i \in Intents |-> <<>>]
    /\ attempts = [i \in Intents |-> [t \in Tokens |-> 0]]
    /\ stats = [w \in Workers |-> ZeroStats]
    /\ counting = TRUE
    /\ ret = NoCall
    /\ user_fcm_tokens = NoTokens
    /\ boot = NoBoot
    /\ retry = [w \in Workers |-> NoRetry]
    /\ driver = NoDriver
    /\ marker = [i \in Intents |-> "none"]
    /\ \E out \in [Tokens -> Outcomes], p \in Payloads :
          \/ \E u \in Users :
                /\ queue = [i \in Intents |->
                              IF i = 1 THEN [NewRow(u, 1) EXCEPT !.processing_started_at = 0]
                              ELSE NoRow]
                /\ pc = [w \in Workers |-> IF w = Solo THEN "batch" ELSE "down"]
                /\ batch = [w \in Workers |-> IF w = Solo THEN {1} ELSE {}]
                /\ item = [w \in Workers |-> [i \in Intents |->
                              IF w = Solo /\ i = 1 THEN [NoItem EXCEPT !.pc = "lookup"]
                              ELSE NoItem]]
                /\ fcm = [FcmIdle EXCEPT !.out = out, !.payload = p]
          \/ \E toks \in SUBSET Tokens :
                /\ queue = [i \in Intents |-> NoRow]
                /\ pc = [w \in Workers |-> IF w = Solo THEN "sleep" ELSE "down"]
                /\ batch = [w \in Workers |-> {}]
                /\ item = [w \in Workers |-> [i \in Intents |-> NoItem]]
                /\ fcm = [FcmIdle EXCEPT !.pc = "called", !.out = out, !.payload = p,
                                         !.tokens = toks, !.todo = toks]

DispatchNext ==
    \/ \E i \in Intents : LookupTokens(Solo, i)
    \/ \E i \in Intents : CallDispatch(Solo, i)
    \/ DispatchEmpty
    \/ \E t \in Tokens : SendToken(t)
    \/ DispatchReturn
    \/ \E i \in Intents : ReturnDispatch(Solo, i)
    \/ \E i \in Intents, ok \in BOOLEAN : deactivateInvalidTokens(Solo, i, ok)
    \/ \E i \in Intents : markNotificationProcessed(Solo, i)
    \/ BatchDone(Solo)

SpecDispatch == DispatchInit /\ [][DispatchNext]_vars

\* -------------------------------------------------------------------- claims

\* C1: the rows returned to two workers whose claim calls overlapped in time
\* are disjoint sets.
C1_ConcurrentClaimsDisjoint ==
    \A w1, w2 \in Workers :
        (w1 # w2 /\ w2 \in overlap[w1]) => batch[w1] \cap batch[w2] = {}

C1_Witness ==
    \E w1, w2 \in Workers :
        /\ w1 # w2 /\ w2 \in overlap[w1]
        /\ Returned(w1) /\ Returned(w2)
        /\ batch[w1] # {} /\ batch[w2] # {}

\* C9: a claim call that starts while no other claim call is in flight locks
\* exactly min(limit, number of Pending) rows, all Pending, none younger than
\* a Pending row it leaves; its return hands over exactly those rows, each now
\* Claimed with a fresh timestamp, and an empty result sends the loop to its
\* normal sleep (not to the error backoff).
C9_ClaimOldestUpToLimit ==
    [][\A w \in Workers :
         /\ (pc[w] = "poll" /\ pc'[w] = "claiming"
               /\ \A v \in Workers \ {w} : pc[v] # "claiming")
            => LET S == selected'[w]
                   P == PendingIds(queue)
               IN  /\ S \subseteq P
                   /\ Cardinality(S) = Min(BatchSize, Cardinality(P))
                   /\ \A i \in S, j \in P \ S : queue[i].created_at <= queue[j].created_at
         /\ (pc[w] = "claiming" /\ pc'[w] \in {"batch", "sleep"})
            => LET S == selected[w]
               IN  /\ batch'[w] = S
                   /\ \A i \in S : IsPending(queue[i]) /\ IsClaimed(queue'[i])
                                   /\ queue'[i].processing_started_at = 0
                   /\ \A i \in Intents \ S : queue'[i] = queue[i]
                   /\ pc'[w] = IF S = {} THEN "sleep" ELSE "batch"]_vars

C9_Witness ==
    \E w \in Workers :
        /\ Returned(w) /\ overlap[w] = {}
        /\ Cardinality(batch[w]) = BatchSize
        /\ pending0[w] > BatchSize
        /\ \E j \in PendingIds(queue) : \A i \in batch[w] : queue[i].created_at <= queue[j].created_at

\* C10 (as amended): two overlapping claim calls of limit BatchSize against a
\* store holding P Pending rows return disjoint sets of at most BatchSize rows
\* each, min(2 * BatchSize, P) rows between them, and leave the other
\* P - min(2 * BatchSize, P) rows Pending.
C10_ScenarioE ==
    \A w1, w2 \in Workers :
        (w1 # w2 /\ w2 \in overlap[w1] /\ Returned(w1) /\ Returned(w2))
        => LET P == pending0[w1]
               both == batch[w1] \cup batch[w2]
           IN  /\ pending0[w2] = P
               /\ batch[w1] \cap batch[w2] = {}
               /\ Cardinality(batch[w1]) <= BatchSize
               /\ Cardinality(batch[w2]) <= BatchSize
               /\ Cardinality(both) = Min(2 * BatchSize, P)
               /\ Cardinality(PendingIds(queue)) = P - Min(2 * BatchSize, P)

C10_Witness ==
    \E w1, w2 \in Workers :
        /\ w1 # w2 /\ w2 \in overlap[w1] /\ Returned(w1) /\ Returned(w2)
        /\ pending0[w1] > BatchSize /\ pending0[w1] < 2 * BatchSize
        /\ Cardinality(batch[w1] \cup batch[w2]) = pending0[w1]
        /\ PendingIds(queue) = {}

\* C10 as written: of P > BatchSize Pending rows, the two overlapping calls
\* claim exactly BatchSize between them and P - BatchSize stay Pending.
C10_AsWritten ==
    \A w1, w2 \in Workers :
        (w1 # w2 /\ w2 \in overlap[w1] /\ Returned(w1) /\ Returned(w2)
           /\ pending0[w1] > BatchSize /\ pending0[w1] < 2 * BatchSize)
        => /\ Cardinality(batch[w1] \cup batch[w2]) = BatchSize
           /\ Cardinality(PendingIds(queue)) = pending0[w1] - BatchSize


\* C2: no row is held by two workers' batches while it is unprocessed, and no
\* row is dispatched to the transport by two workers.
C2_NoDuplicateClaimOrDispatch ==
    \A i \in Intents :
        /\ \A w1, w2 \in Workers :
              (w1 # w2 /\ ~IsProcessed(queue[i]))
                 => ~(item[w1][i].pc # "none" /\ item[w2][i].pc # "none")
        /\ Cardinality(sent[i]) <= 1

\* C4: a Processed row has had a delivery attempt: a dispatch to the
\* recipient's tokens, or a token lookup that returned no token.
C4_ProcessedHadAttempt ==
    \A i \in Intents : IsProcessed(queue[i]) => (sent[i] # {} \/ skipped[i])

\* C5: a settled processNotification task has invoked markNotificationProcessed
\* at least once, on every path (no token, sends failed, lookup threw, token
\* deactivation failed, the first mark threw).
C5_MarkInvokedBeforeSettle ==
    \A w \in Workers, i \in Intents :
        item[w][i].pc \in {"fulfilled", "rejected"} => item[w][i].marks >= 1

C5_Witness ==
    \E w \in Workers, i \in Intents :
        /\ item[w][i].pc = "rejected" /\ item[w][i].marks = 1
        /\ sent[i] = {} /\ ~skipped[i]

\* Lifecycle state of a row.
Life(r) == IF ~r.exists THEN "Absent"
           ELSE IF r.processed THEN "Processed"
           ELSE IF r.processing_started_at = NULL THEN "Pending" ELSE "Claimed"

\* C6: a row's lifecycle state changes only along Pending -> Claimed,
\* Claimed -> Processed and Claimed -> Pending (the latter only past the
\* timeout), besides its insertion and its purge; never Pending -> Processed.
C6_LifecycleTransitions ==
    [][\A i \in Intents :
         \/ Life(queue'[i]) = Life(queue[i])
         \/ Life(queue[i]) = "Absent" /\ Life(queue'[i]) = "Pending"
         \/ Life(queue[i]) = "Pending" /\ Life(queue'[i]) = "Claimed"
         \/ Life(queue[i]) = "Claimed" /\ Life(queue'[i]) = "Processed"
         \/ Life(queue[i]) = "Claimed" /\ Life(queue'[i]) = "Pending"
              /\ queue[i].processing_started_at > ClaimTimeout
         \/ Life(queue[i]) = "Processed" /\ Life(queue'[i]) = "Absent"]_vars

\* C7: once a row is Processed, a step leaves every field of it as it is (the
\* clock alone ages its timestamp) or is the retention purge deleting it; no
\* claim statement selects or returns it.
C7_ProcessedIsTerminal ==
    [][\A i \in Intents :
         IsProcessed(queue[i])
         => /\ \/ queue'[i] = queue[i]
               \/ queue'[i] = TickRow(queue[i]) /\ queue' = [j \in Intents |-> TickRow(queue[j])]
               \/ queue'[i] = NoRow /\ queue[i].processed_at > Retention
            /\ \A w \in Workers : i \notin selected'[w] /\ (i \in batch'[w] => i \in batch[w])]_vars

C7_Witness ==
    \E i \in Intents :
        /\ IsProcessed(queue[i]) /\ queue[i].processed_at > 0
        /\ Len(markLog[i]) >= 2

\* C8: of the calls of mark_notification_processed on one id the first returns
\* TRUE and every later one FALSE; the row, while it exists, is Processed after
\* each call; a call that returns FALSE (also: on an id with no row) changes
\* nothing in the store.
C8_MarkIdempotent ==
    [][\A i \in Intents :
         markLog'[i] # markLog[i]
         => LET r == markLog'[i][Len(markLog'[i])] IN
            /\ r = (Len(markLog[i]) = 0)
            /\ queue[i].exists => IsProcessed(queue'[i])
            /\ ~r => queue' = queue
            /\ ~queue[i].exists => (~r /\ queue' = queue)]_vars

C8_Witness ==
    \E i \in Intents : markLog[i] = <<TRUE, FALSE>> /\ IsProcessed(queue[i])


\* C3: every Pending row is eventually Processed, as long as one instance keeps
\* running and store calls eventually succeed, whatever the other instance does
\* (it may die while it holds the row).
C3_PendingEventuallyProcessed ==
    \A i \in Intents : IsPending(queue[i]) ~> IsProcessed(queue[i])

C3_Witness ==
    \E i \in Intents, w \in Workers \ {Survivor} :
        /\ pc[w] = "down" /\ w \in sent[i]
        /\ IsProcessed(queue[i]) /\ Survivor \in sent[i]


\* C11 (scenario D): a row left Claimed by a process that has terminated, and
\* that no running instance is working on, is returned to Pending by a reclaim
\* sweep once its claim has expired; a Pending row is then returned by a claim
\* call of the running instance; and the row ends Processed.
Orphaned(i) ==
    /\ IsClaimed(queue[i])
    /\ \A w \in Workers \ {Survivor} : pc[w] = "down"
    /\ item[Survivor][i].pc = "none"

C11_CrashRecovery ==
    \A i \in 1..MaxEnqueue :
        /\ Orphaned(i) ~> IsPending(queue[i])
        /\ (IsPending(queue[i]) /\ \A w \in Workers \ {Survivor} : pc[w] = "down")
              ~> (i \in batch[Survivor])
        /\ Orphaned(i) ~> IsProcessed(queue[i])

C11_Witness ==
    \E i \in Intents, w \in Workers \ {Survivor} :
        /\ IsPending(queue[i]) /\ pc[w] = "down" /\ w \in sent[i]
        /\ pc[Survivor] = "poll" /\ Survivor \notin sent[i]


\* C12 (scenario A): when the instance's first non-empty batch came from a
\* claim call that found no more Pending rows than the batch size, and it has
\* settled with no call having thrown and no token deactivated, then the batch
\* holds every row that was Pending, each row has been sent exactly once to
\* each active token of its user and to no other token, and each row is
\* Processed.
ScenarioA(w) ==
    /\ pc[w] = "batch" /\ Settled(w)
    /\ stats[w] = ZeroStats
    /\ pending0[w] <= BatchSize
    /\ \A i \in batch[w] : item[w][i].pc = "fulfilled"

C12_BatchSentToEveryToken ==
    \A w \in Workers :
        ScenarioA(w)
        => /\ Cardinality(batch[w]) = pending0[w]
           /\ PendingIds(queue) = {}
           /\ \A i \in batch[w] :
                 /\ IsProcessed(queue[i])
                 /\ \A t \in Tokens :
                       attempts[i][t] = IF Owner(t) = queue[i].user_id /\ tokens[t] THEN 1 ELSE 0

C12_Witness ==
    \E w \in Workers :
        /\ ScenarioA(w)
        /\ Cardinality(batch[w]) = BatchSize
        /\ \A i \in batch[w], t \in Tokens : attempts[i][t] = 1

\* C13 (Scenario B): a row whose recipient has no active token causes no call
\* of the dispatch and no transport send, and it is marked: once its
\* processing has returned the row is Processed.  A dispatch that is called
\* with an empty token list makes no transport call and returns the zero
\* result.
ZeroResult ==
    /\ fcm.successCount = 0
    /\ fcm.failureCount = 0
    /\ fcm.invalidTokenIds = <<>>

C13_NoTokenNoSend ==
    /\ \A i \in Intents :
          skipped[i] =>
              /\ fcm.pc = "idle"
              /\ \A t \in Tokens : fcm.calls[t] = 0 /\ attempts[i][t] = 0
              /\ sent[i] = {}
              /\ item[Solo][i].pc = "markEmpty" \/ IsProcessed(queue[i])
    /\ fcm.pc # "idle" /\ fcm.tokens = {} =>
          /\ \A t \in Tokens : fcm.calls[t] = 0
          /\ fcm.pc = "returned" => ZeroResult

C13_Witness ==
    \E i \in Intents :
        /\ skipped[i]
        /\ item[Solo][i].pc = "fulfilled"
        /\ IsProcessed(queue[i])
        /\ \E t \in Tokens : tokens[t] /\ Owner(t) # queue[i].user_id
\* C14 (Scenario C): the recipient has two active tokens, the provider answers
\* the send to token bad with a permanent-invalid verdict and the send to the
\* other token with success.  Once the item has returned, the row is
\* Processed, the other token is still active, and token bad is inactive
\* (the deactivation call having returned without a store error, which is the
\* case exactly when the engine counted a deactivated token).
ScenarioC(w, i, bad) ==
    /\ item[w][i].pc = "fulfilled"
    /\ w \in sent[i]
    /\ fcm.pc = "returned"
    /\ fcm.tokens = Tokens
    /\ IsPermanentlyInvalid(fcm.out[bad])
    /\ \A t \in Tokens \ {bad} : fcm.out[t] = "ok"

C14_OnlyInvalidTokenDeactivated ==
    \A i \in Intents, bad \in Tokens :
        ScenarioC(Solo, i, bad) =>
            /\ IsProcessed(queue[i])
            /\ \A t \in Tokens \ {bad} : tokens[t]
            /\ stats[Solo].tokensDeactivated \in {0, 1}
            /\ tokens[bad] <=> stats[Solo].tokensDeactivated = 0

C14_Witness ==
    \E i \in Intents, bad \in Tokens :
        /\ ScenarioC(Solo, i, bad)
        /\ ~tokens[bad]
        /\ stats[Solo].tokensDeactivated = 1
        /\ \E t \in Tokens \ {bad} : tokens[t]
\* C15: a token id is in invalidTokenIds only if the provider answered the send
\* to that very token with the invalid-token or the unregistered-token error.
\* A send that fails in any other way is counted in failureCount, adds nothing
\* to invalidTokenIds, and the token is still active after processNotification.
TokenVerdicts == {"messaging/invalid-registration-token",
                  "messaging/registration-token-not-registered"}

Failed(toks) == {t \in toks : fcm.out[t] # "ok"}

C15_InvalidOnlyByVerdict ==
    /\ \A t \in Elements(fcm.invalidTokenIds) :
          t \in fcm.tokens /\ fcm.calls[t] = 1 /\ fcm.out[t] \in TokenVerdicts
    /\ fcm.failureCount = Cardinality(Failed(fcm.tokens \ fcm.todo))
    /\ fcm.successCount = Cardinality((fcm.tokens \ fcm.todo) \ Failed(fcm.tokens))
    /\ \A i \in Intents, t \in Tokens :
          Solo \in sent[i] /\ t \in fcm.tokens /\ fcm.out[t] \notin TokenVerdicts =>
              /\ t \notin item[Solo][i].inv
              /\ tokens[t]

C15_Witness ==
    /\ fcm.pc = "returned"
    /\ fcm.tokens = Tokens
    /\ \A t \in Tokens : fcm.out[t] \notin TokenVerdicts \cup {"ok"}
    /\ fcm.failureCount = Cardinality(Tokens)
    /\ fcm.invalidTokenIds = <<>>
    /\ \E i \in Intents : item[Solo][i].pc = "fulfilled" /\ \A t \in Tokens : tokens[t]
\* C16: a call of sendToMultipleTokens makes exactly one send for every token
\* of its list, whatever the other sends answer, and it returns its result:
\* no outcome of a send makes it throw.  The engine's count of the sends of a
\* row agrees with the sends made.
C16_OneAttemptPerToken ==
    /\ fcm.pc \in {"idle", "called", "returned"}
    /\ \A t \in Tokens :
          fcm.calls[t] = IF fcm.pc # "idle" /\ t \in fcm.tokens \ fcm.todo THEN 1 ELSE 0
    /\ fcm.pc = "returned" =>
          /\ fcm.todo = {}
          /\ fcm.successCount + fcm.failureCount = Cardinality(fcm.tokens)
    /\ \A i \in Intents : Solo \in sent[i] => attempts[i] = fcm.calls

C16_Witness ==
    /\ fcm.pc = "returned"
    /\ fcm.tokens = Tokens
    /\ \E t \in Tokens : fcm.out[t] = "none"
    /\ \E t \in Tokens : fcm.out[t] = "ok"
    /\ \A t \in Tokens : fcm.calls[t] = 1
    /\ fcm.successCount = 1
\* C17: the data payload of every message handed to the transport has a total
\* size (key lengths plus value lengths) of at most the aggregate limit, and
\* every value is at most as long as the per-value cap.
C17_PayloadBound ==
    \A t \in Tokens :
        fcm.calls[t] > 0 =>
            /\ TotalSize(fcm.data[t]) <= MaxTotalSize
            /\ \A k \in 1..Len(fcm.data[t]) : fcm.data[t][k].len <= MaxValueLength
\* C18: when one or more sends of a row have failed, nothing is thrown out of
\* processNotification, the row is marked Processed, and once the batch is
\* over the failure is counted in the engine's failed counter.
DeliveryFailed(w, i) ==
    /\ w \in sent[i]
    /\ fcm.pc = "returned"
    /\ fcm.failureCount > 0

C18_DeliveryFailureCounted ==
    \A i \in Intents :
        DeliveryFailed(Solo, i) =>
            /\ item[Solo][i].pc \notin {"catch", "rejected"}
            /\ pc[Solo] = "sleep" => IsProcessed(queue[i]) /\ stats[Solo].failed > 0
C20_NoClaimAfterShutdown ==
    [][\A w \in Workers :
          ~isRunning[w] /\ pc[w] # "down" =>
              /\ pc[w] # "poll" => pc'[w] # "poll"
              /\ pc[w] # "poll" => selected'[w] \subseteq selected[w]]_vars

C20_Witness ==
    \E w \in Workers :
        /\ ~isRunning[w]
        /\ pc[w] = "loopdone"
        /\ PendingIds(queue) # {}
\* C21: when the process has exited after a shutdown signal, every row the
\* worker had dispatched to the transport is Processed: no row is left with
\* its send made and its mark missing.
C21_NoHalfProcessedAtExit ==
    pc[Solo] = "exited" =>
        \A i \in Intents : Solo \in sent[i] => IsProcessed(queue[i])
\* C22: a call of resetStuckNotifications(timeout) that the store answers
\* clears processing_started_at of exactly the rows that are unprocessed and
\* were claimed longer ago than the timeout (they are Pending afterwards) and
\* returns their number; every other row - Pending, Processed, claimed more
\* recently, absent - is as it was.
StuckIds(q, timeout) ==
    {i \in Intents : IsClaimed(q[i]) /\ q[i].processing_started_at > timeout}

C22_ReclaimStuckFrame ==
    [][ret'.seq # ret.seq /\ ret'.op = "resetStuckNotifications" /\ ret'.ok =>
          /\ ret'.value = Cardinality(StuckIds(queue, ret'.arg))
          /\ \A i \in StuckIds(queue, ret'.arg) :
                /\ IsPending(queue'[i])
                /\ queue'[i] = [queue[i] EXCEPT !.processing_started_at = NULL]
          /\ \A i \in Intents \ StuckIds(queue, ret'.arg) : queue'[i] = queue[i]]_vars

C22_Witness ==
    /\ ret.op = "resetStuckNotifications"
    /\ ret.ok
    /\ ret.arg = ClaimTimeout
    /\ ret.value = 1
    /\ ClaimedIds(queue) # {}
    /\ ProcessedIds(queue) # {}
    /\ PendingIds(queue) # {}

\* C23: a call of cleanupOldNotifications(days) deletes only rows that are
\* Processed with processed_at older than the given age; every Pending and
\* every Claimed row is still there afterwards, unmodified.
C23_PurgeOnlyOldProcessed ==
    [][ret'.seq # ret.seq /\ ret'.op = "cleanupOldNotifications" =>
          \A i \in Intents :
              /\ queue'[i] # queue[i] =>
                    /\ IsProcessed(queue[i]) /\ queue[i].processed_at > ret'.arg
                    /\ ~queue'[i].exists
              /\ IsPending(queue[i]) \/ IsClaimed(queue[i]) => queue'[i] = queue[i]]_vars

C23_Witness ==
    /\ ret.op = "cleanupOldNotifications"
    /\ ret.ok
    /\ ret.value = 1
    /\ ClaimedIds(queue) # {}
    /\ \E i \in Intents : IsProcessed(queue[i]) /\ queue[i].processed_at <= ret.arg
\* C24: a call of deactivateInvalidTokens(ids) that the store answers leaves
\* every given row inactive, deletes no row and touches no other row; it
\* returns the number of given rows that were active before the call, and the
\* same call made again at once returns 0 and changes nothing.
ActiveIds(tab, ids) == {id \in ids : tab[id].exists /\ tab[id].is_active}

C24_DeactivateIdempotent ==
    [][ret'.seq # ret.seq /\ ret'.op = "deactivateInvalidTokens" /\ ret'.ok =>
          /\ ActiveIds(user_fcm_tokens', ret'.ids) = {}
          /\ ret'.value = Cardinality(ActiveIds(user_fcm_tokens, ret'.ids))
          /\ \A id \in TokenIds :
                /\ user_fcm_tokens'[id].exists = user_fcm_tokens[id].exists
                /\ user_fcm_tokens'[id].user_id = user_fcm_tokens[id].user_id
                /\ user_fcm_tokens'[id].fcm_token = user_fcm_tokens[id].fcm_token
                /\ id \notin ActiveIds(user_fcm_tokens, ret'.ids) =>
                      user_fcm_tokens'[id] = user_fcm_tokens[id]
          /\ DeactivateTokens(user_fcm_tokens', ret'.ids) = user_fcm_tokens'
          /\ (ret.op = "deactivateInvalidTokens" /\ ret.ok /\ ret.ids = ret'.ids) =>
                ret'.value = 0 /\ user_fcm_tokens' = user_fcm_tokens]_vars

C24_Witness ==
    /\ ret.op = "deactivateInvalidTokens"
    /\ ret.ok
    /\ ret.ids = TokenIds
    /\ ret.value = 1
    /\ \A id \in TokenIds : user_fcm_tokens[id].exists /\ ~user_fcm_tokens[id].is_active

\* C25: a call of getUserActiveFcmTokens(user) returns exactly the rows of
\* that user that are active and were updated within the freshness horizon;
\* and a row becomes active again only by a registration of its pair, so a
\* deactivated token is returned by no lookup until it is registered again.
C25_LookupOnlyActiveFresh ==
    [][/\ ret'.seq # ret.seq /\ ret'.op = "getUserActiveFcmTokens" /\ ret'.ok =>
            /\ ret'.rows = {id \in TokenIds :
                              /\ user_fcm_tokens[id].exists
                              /\ user_fcm_tokens[id].user_id = ret'.user
                              /\ user_fcm_tokens[id].is_active
                              /\ user_fcm_tokens[id].updated_at < TokenHorizon}
            /\ \A id \in ret'.rows : user_fcm_tokens'[id].is_active
       /\ \A id \in TokenIds :
            (user_fcm_tokens[id].exists /\ ~user_fcm_tokens[id].is_active
                /\ user_fcm_tokens'[id].is_active) =>
                /\ ret'.op = "updateToken"
                /\ ret'.user = user_fcm_tokens[id].user_id
                /\ ret'.token = user_fcm_tokens[id].fcm_token]_vars

C25_Witness ==
    /\ ret.op = "getUserActiveFcmTokens"
    /\ ret.ok
    /\ ret.rows # {}
    /\ \E id \in TokenIds \ ret.rows :
          /\ user_fcm_tokens[id].exists
          /\ user_fcm_tokens[id].user_id = ret.user
          /\ ~user_fcm_tokens[id].is_active

\* C26: the table never holds two rows with the same user_id and fcm_token; a
\* registration of a pair that is already there adds no row and leaves the
\* row of the pair active; one user may have several rows.
RowsOf(tab) == {id \in TokenIds : tab[id].exists}

C26_TokenPairUnique ==
    /\ [](\A a, b \in RowsOf(user_fcm_tokens) :
            (/\ user_fcm_tokens[a].user_id = user_fcm_tokens[b].user_id
             /\ user_fcm_tokens[a].fcm_token = user_fcm_tokens[b].fcm_token) => a = b)
    /\ [][(ret'.seq # ret.seq /\ ret'.op = "updateToken" /\ ret'.ok
              /\ Conflict(user_fcm_tokens, ret'.user, ret'.token) # {}) =>
               /\ RowsOf(user_fcm_tokens') = RowsOf(user_fcm_tokens)
               /\ \A id \in Conflict(user_fcm_tokens, ret'.user, ret'.token) :
                     user_fcm_tokens'[id].is_active]_vars

C26_Witness ==
    /\ ret.op = "updateToken"
    /\ ret.ok
    /\ Cardinality(RowsOf(user_fcm_tokens)) = NumTokenRows
    /\ \A id \in TokenIds :
          user_fcm_tokens[id].user_id = ret.user /\ user_fcm_tokens[id].is_active
    /\ \E id \in TokenIds : user_fcm_tokens[id].fcm_token = ret.token
                              /\ user_fcm_tokens[id].updated_at = 0
    /\ \E id \in TokenIds : user_fcm_tokens[id].updated_at > 0

\* C27: while a required credential is absent or malformed, and at any time
\* before validateConfig has returned, no worker has been constructed and
\* started: every worker is down and not running.
C27_ValidationBeforeWorker ==
    /\ boot.phase \in {"load", "bootstrap"} =>
          \A w \in Workers : pc[w] = "down" /\ ~isRunning[w]
    /\ boot.cred # "good" =>
          \A w \in Workers : pc[w] = "down" /\ ~isRunning[w]

\* C28: a process whose BATCH_SIZE is set to a text that is no number or to a
\* number outside 1..1000, or whose POLL_INTERVAL_MS is set to such a text or
\* to a number below 1000, never gets past validateConfig; and past it, a
\* value that is set is the value in use.
SuppliedOutOfRange(env) ==
    \/ env.BATCH_SIZE.kind = "text"
    \/ env.BATCH_SIZE.kind = "num" /\ (env.BATCH_SIZE.n < 1 \/ env.BATCH_SIZE.n > 1000)
    \/ env.POLL_INTERVAL_MS.kind = "text"
    \/ env.POLL_INTERVAL_MS.kind = "num" /\ env.POLL_INTERVAL_MS.n < 1000

C28_BadTuningIsFatal ==
    boot.phase = "main" =>
        /\ ~SuppliedOutOfRange(boot)
        /\ boot.BATCH_SIZE.kind # "unset" =>
               workerConfig(boot).batchSize = parseInt(boot.BATCH_SIZE)
        /\ boot.POLL_INTERVAL_MS.kind # "unset" =>
               workerConfig(boot).pollIntervalMs = parseInt(boot.POLL_INTERVAL_MS)

\* C29: of two poll cycles that fail one after the other, the second is
\* followed by a longer wait than the first.
C29_BackoffGrows ==
    \A w \in Workers : retry[w].fails >= 2 => retry[w].wait > retry[w].prev

\* C30: a worker that starts goes to its reclaim sweep and nowhere else; while
\* the sweep is pending the worker has selected and claimed nothing; the loop
\* begins only when the sweep has returned, having reset the stuck rows or,
\* on an error, nothing; and a claim statement begins only in the loop.
C30_SweepBeforeFirstClaim ==
    [][\A w \in Workers :
          /\ pc[w] = "down" => pc'[w] \in {"down", "recover"}
          /\ pc[w] = "recover" =>
                /\ selected[w] = {} /\ batch[w] = {}
                /\ selected'[w] = {} /\ batch'[w] = {}
                /\ pc'[w] \in {"recover", "poll", "loopdone", "down"}
                /\ pc'[w] \in {"poll", "loopdone"} =>
                      queue' \in {queue, [i \in Intents |->
                                           IF i \in StuckIds(queue, ClaimTimeout)
                                           THEN [queue[i] EXCEPT !.processing_started_at = NULL]
                                           ELSE queue[i]]}
          /\ (pc'[w] = "claiming" /\ pc[w] # "claiming") => pc[w] = "poll"
          /\ (pc'[w] = "poll" /\ pc[w] # "poll") =>
                pc[w] \in {"recover", "sleep", "backoff"}]_vars

C30_Witness ==
    \E w \in Workers :
        /\ pc[w] = "claiming"
        /\ selected[w] # {}
        /\ timer[w]
        /\ \E v \in Workers \ {w} : pc[v] = "recover"

\* A Claimed row that no process works on: its claimer is gone.
Abandoned(i) ==
    /\ IsClaimed(queue[i])
    /\ \A w \in Workers : item[w][i].pc = "none" /\ i \notin selected[w]

\* The step in which the startup sweep of worker w returns.
SweepReturns(w) == pc[w] = "recover" /\ pc'[w] \in {"poll", "loopdone"}

\* C31 as written: after the startup sweep of a new instance every abandoned
\* Claimed row is Pending again.
C31_AsWritten ==
    [][\A w \in Workers : SweepReturns(w) =>
          \A i \in Intents : Abandoned(i) => IsPending(queue'[i])]_vars

\* C31: a startup sweep either fails and changes nothing, or it leaves every
\* row that had been Claimed for longer than the claim timeout Pending, hence
\* open to the first claim of the new instance; a row whose claim is not older
\* than the timeout stays Claimed as it was.
C31_SweepRecoversStuck ==
    [][\A w \in Workers : SweepReturns(w) =>
          /\ \/ queue' = queue
             \/ \A i \in StuckIds(queue, ClaimTimeout) :
                   /\ IsPending(queue'[i])
                   /\ i \notin LockedRows(w) =>
                         \E S \in ClaimSubselect(queue', LockedRows(w), NumIntents) : i \in S
          /\ \A i \in ClaimedIds(queue) \ StuckIds(queue, ClaimTimeout) :
                queue'[i] = queue[i]]_vars

C31_Witness ==
    \E w \in Workers, v \in Workers, i \in Intents :
        /\ v # w /\ pc[v] = "down" /\ v \in sent[i]
        /\ pc[w] = "poll" /\ timer[w] /\ w \notin sent[i]
        /\ IsPending(queue[i])

\* The rows whose processNotification task of worker w has begun and has not
\* been collected by the loop.
InFlight(w) == {i \in Intents : item[w][i].pc # "none"}

\* C32: every task of a worker belongs to the batch the worker's loop is
\* waiting for; the loop leaves that wait only when every task of the batch is
\* fulfilled or rejected; and a claim statement begins only when no task of
\* the worker is left.
C32_NextClaimAfterBatchSettled ==
    /\ [](\A w \in Workers : InFlight(w) # {} => pc[w] = "batch" /\ InFlight(w) = batch[w])
    /\ [][\A w \in Workers :
            /\ (pc[w] = "batch" /\ pc'[w] \notin {"batch", "exited", "down"}) =>
                  /\ pc'[w] = "sleep"
                  /\ \A i \in batch[w] : item[w][i].pc \in {"fulfilled", "rejected"}
            /\ (pc'[w] = "claiming" /\ pc[w] # "claiming") =>
                  InFlight(w) = {} /\ batch[w] = {}]_vars

C32_Witness ==
    /\ pc[Solo] = "claiming"
    /\ selected[Solo] # {}
    /\ stats[Solo].processed = 1
    /\ stats[Solo].failed = 1
    /\ Cardinality(ProcessedIds(queue)) = 2

\* The processLoop() calls of the instance that have not returned.
ActiveLoops == {l \in LoopIds : driver.loops[l] # "none"}

\* C33: whatever start() and stop() calls are made on an instance, at most one
\* processLoop() call of it is active.
C33_SingleLoop == Cardinality(ActiveLoops) <= 1

\* C34: the step in which a task of a batch throws or is rejected leaves the
\* loop and every other task of the batch as they were; and when the loop
\* leaves the wait for the batch, it goes to its normal sleep and every task
\* of the batch, rejected or not, has made its call of
\* markNotificationProcessed.
C34_ThrowingItemDoesNotAbortBatch ==
    [][\A w \in Workers :
          /\ \A i \in Intents :
                (item'[w][i].pc \in {"catch", "rejected"} /\ item'[w][i] # item[w][i]) =>
                    /\ pc'[w] = pc[w]
                    /\ batch'[w] = batch[w]
                    /\ \A j \in Intents \ {i} : item'[w][j] = item[w][j]
          /\ (pc[w] = "batch" /\ pc'[w] \notin {"batch", "exited", "down"}) =>
                /\ pc'[w] = "sleep"
                /\ \A i \in batch[w] : item[w][i].marks >= 1]_vars

C34_Witness ==
    /\ pc[Solo] = "batch"
    /\ isRunning[Solo]
    /\ \E i, j \in batch[Solo] :
          /\ item[Solo][i].pc = "rejected"
          /\ item[Solo][j].pc = "fulfilled"
          /\ sent[j] = {Solo}
          /\ IsProcessed(queue[i]) /\ IsProcessed(queue[j])

\* C35: a call of the hourly callback, answered or failed, leaves isRunning,
\* the counters, the loop and its tasks as they are; a failed call changes no
\* row; and the call after cleanupOldNotifications is resetStuckNotifications,
\* whether the purge was answered or not, which, when answered, leaves every
\* stuck row Pending.
C35_SweepsBestEffort ==
    [][ret'.seq # ret.seq =>
          /\ isRunning' = isRunning /\ timer' = timer /\ stats' = stats
          /\ pc' = pc /\ batch' = batch /\ item' = item
          /\ ~ret'.ok => queue' = queue
          /\ ret.op = "cleanupOldNotifications" =>
                /\ ret'.op = "resetStuckNotifications"
                /\ ret'.ok => \A i \in StuckIds(queue, ClaimTimeout) : IsPending(queue'[i])]_vars

\* A reclaim has reset a row after a purge that failed, while the loop waits
\* for a task that is at its send.
C35_Witness ==
    /\ ret.op = "resetStuckNotifications" /\ ret.ok /\ ret.value >= 1
    /\ \E i \in Intents : IsProcessed(queue[i]) /\ queue[i].processed_at > Retention
    /\ pc[Solo] = "batch"
    /\ \E j \in Intents : item[Solo][j].pc = "send"

\* The results TRUE among the recorded results of the marks of row i.
TrueMarks(i) == {k \in 1..Len(markLog[i]) : markLog[i][k]}

\* C36: of the calls of mark_notification_processed on one row at most one
\* returns TRUE, and it is the call that takes the row from unprocessed to
\* Processed; a call that returns FALSE is made by a worker other than the
\* one whose call returned TRUE.
C36_OneMarkWins ==
    /\ [](\A i \in Intents : Cardinality(TrueMarks(i)) <= 1)
    /\ [][\A i \in Intents :
            markLog'[i] # markLog[i] =>
               IF markLog'[i][Len(markLog'[i])]
               THEN /\ queue[i].exists /\ ~IsProcessed(queue[i]) /\ IsProcessed(queue'[i])
                    /\ marker[i] = "none" /\ marker'[i] \in Workers
               ELSE /\ queue' = queue
                    /\ \E w \in Workers :
                          /\ item'[w][i] # item[w][i]
                          /\ marker[i] \in Workers \ {w}]_vars

C36_Witness ==
    \E i \in Intents, w \in Workers :
        /\ marker[i] \in Workers \ {w}
        /\ markLog[i] = <<TRUE, FALSE>>
        /\ item[w][i].pc = "fulfilled"
        /\ sent[i] = Workers

\* The workers of the process that have been started.
StartedWorkers == {w \in Workers : pc[w] \notin {"down", "exited"}}

\* C37: the process has at most one started worker, with at most one poll
\* loop and one maintenance timer, and it is the worker of main(): the
\* bootstrap of the worker module starts none.
C37_OneWorkerPerProcess ==
    /\ Cardinality(StartedWorkers) <= 1
    /\ Cardinality({w \in Workers : timer[w]}) <= 1
    /\ Cardinality({w \in Workers : pc[w] \in {"poll", "claiming", "sleep", "backoff"}}) <= 1
    /\ BootstrapWorker \notin StartedWorkers

\* The tokens a step takes from active to inactive.
Flipped == {t \in Tokens : tokens[t] /\ ~tokens'[t]}

\* C38: in every step the counter tokensDeactivated of the instance grows by
\* the number of tokens the step takes from active to inactive: a token that
\* a second task of the batch reports again, and a call that fails, add 0.
C38_CounterCountsFlips ==
    [][stats'[Solo].tokensDeactivated =
          stats[Solo].tokensDeactivated + Cardinality(Flipped)]_vars

\* One task has had its invalid token deactivated and counted; a second task
\* of the batch, which sent to the same token, is about to report it again.
C38_Witness ==
    \E i, j \in batch[Solo], t \in Tokens :
        /\ i # j
        /\ item[Solo][i].pc = "mark" /\ attempts[i][t] = 1
        /\ item[Solo][j].pc = "deactivate" /\ t \in item[Solo][j].inv
        /\ ~tokens[t]
        /\ stats[Solo].tokensDeactivated = 1

\* C39: a call of sendToMultipleTokens on a list that is not empty returns
\* counts that add up to the number of tokens given; the ids it reports as
\* invalid are ids of tokens of the list whose send failed, none of them twice,
\* so that they are at most as many as the failures.
C39_ResultAccountsForEveryToken ==
    fcm.pc = "returned" /\ fcm.tokens # {} =>
        /\ fcm.successCount + fcm.failureCount = Cardinality(fcm.tokens)
        /\ \A k \in 1..Len(fcm.invalidTokenIds) :
              /\ fcm.invalidTokenIds[k] \in fcm.tokens
              /\ fcm.out[fcm.invalidTokenIds[k]] # "ok"
              /\ \A j \in 1..Len(fcm.invalidTokenIds) :
                    j # k => fcm.invalidTokenIds[j] # fcm.invalidTokenIds[k]
        /\ Len(fcm.invalidTokenIds) <= fcm.failureCount

C39_Witness ==
    /\ fcm.pc = "returned"
    /\ fcm.tokens = Tokens
    /\ fcm.successCount = 0
    /\ fcm.failureCount = 2
    /\ Len(fcm.invalidTokenIds) = 1

\* The items of the batch of w whose processNotification threw.
Thrown(w) == {i \in batch[w] : item[w][i].pc = "rejected"}

====
